---------------------------- MODULE Spec2Model ----------------------------
(***************************************************************************)
(* A model of the indicator dashboard's data layer: the data directory,    *)
(* load_indicator_data, load_forecast_data, the forecast generators,       *)
(* load_all_indicators, the impact classification and the parts of the     *)
(* views that mark sample data.                                            *)
(*                                                                         *)
(* Conventions.                                                            *)
(*   - A timestamp is the integer TS(m, d, t): month index m, day of month *)
(*     d, time of day t (0 is midnight, 1 is later in the day).  Integer   *)
(*     order is chronological order.                                       *)
(*   - A price or index value is an integer number of hundredths.          *)
(*   - A percentage is an integer number of hundredths of a percent.       *)
(*   - A DataFrame is a record [cols, numeric, dateOk, rows]: the column   *)
(*     names in order, the names of the columns of numeric dtype, whether  *)
(*     the text of its date column parses as dates, and the rows, each a   *)
(*     function from column name to cell.  The description column, a       *)
(*     display text no decision reads, is left out.                        *)
(*   - A file path is <<dir, id, suffix>> and stands for                   *)
(*     <dir>/<id><suffix>.csv; dir "base" is the data directory itself.    *)
(***************************************************************************)
EXTENDS Integers, Sequences, FiniteSets, TLC

VARIABLES fs, now, out

vars == <<fs, now, out>>

(***************************************************************************)
(* Time                                                                    *)
(***************************************************************************)
TS(m, d, t) == (m * 32 + d) * 2 + t
MonthOf(ts) == ts \div 64
DayOf(ts) == (ts \div 2) % 32
TodOf(ts) == ts % 2
\* month of the year, 1..12, of a month index
MonthOfYear(m) == (m % 12) + 1

\* the moments at which the program is observed
NowSet == {TS(24, 1, 1), TS(24, 15, 1)}

(***************************************************************************)
(* Indicators and their metadata                                           *)
(***************************************************************************)
indicators ==
    << "cruspi", "cruspi_long", "wti_oil", "supply_chain", "ppi_steel_scrap",
       "pmi_input_us", "ism_supplier_deliveries", "baltic_dry_index",
       "dollar_index", "empire_prices_paid", "komatsu_equipment",
       "sms_equipment", "caterpillar_equipment", "fabricated_steel",
       "cement_ready_mix", "explosives" >>

IndicatorIds == {indicators[i] : i \in 1..Len(indicators)}

get_default_source_name(indicator_id) ==
    CASE indicator_id = "cruspi" -> "CRU Steel Price Index"
      [] indicator_id = "cruspi_long" -> "CRU Long Products Index"
      [] indicator_id = "wti_oil" -> "WTI Crude Oil Price"
      [] indicator_id = "supply_chain" -> "NY Fed Supply Chain Pressure Index"
      [] indicator_id = "ppi_steel_scrap" -> "BLS Steel Scrap Price Index"
      [] indicator_id = "pmi_input_us" -> "ISM Manufacturing PMI Input Prices"
      [] indicator_id = "ism_supplier_deliveries" -> "ISM Supplier Deliveries Index"
      [] indicator_id = "baltic_dry_index" -> "Baltic Dry Index (BDIY Index)"
      [] indicator_id = "dollar_index" -> "US Dollar Index (DXY Curncy)"
      [] indicator_id = "empire_prices_paid" ->
             "NY Fed Empire State Manufacturing 6M Ahead Prices Paid"
      [] indicator_id = "komatsu_equipment" -> "Komatsu Heavy Equipment Cost Index"
      [] indicator_id = "sms_equipment" -> "SMS Equipment Cost Index"
      [] indicator_id = "caterpillar_equipment" -> "Caterpillar Equipment Cost Index"
      [] indicator_id = "fabricated_steel" -> "Fabricated Structural Steel Cost Index"
      [] indicator_id = "cement_ready_mix" -> "Cement and Ready-Mix Cost Index"
      [] indicator_id = "explosives" -> "Explosives & Accessories Cost Index"
      [] OTHER -> indicator_id

get_default_unit(indicator_id) ==
    IF indicator_id = "wti_oil" THEN "$" ELSE ""

get_default_preferred_direction(indicator_id) ==
    IF indicator_id \in {"cruspi", "cruspi_long", "baltic_dry_index", "dollar_index"}
    THEN "neutral"
    ELSE IF indicator_id \in IndicatorIds THEN "down" ELSE "neutral"

\* A source text: a name followed by a tag, as the code concatenates them.
SourceText(name, tag) == [name |-> name, tag |-> tag]

\* 'sample' in text.lower(), for the source texts of the model
MentionsSample(text) ==
    \/ text.tag \in {" (Sample Data)", " - FORECAST (Sample)"}
    \/ text.name \in {"Vendor sample feed"}

(***************************************************************************)
(* DataFrames                                                              *)
(***************************************************************************)
HasCol(df, c) == \E i \in 1..Len(df.cols) : df.cols[i] = c

IsEmpty(df) == Len(df.rows) = 0

\* df[c] = vals: the column is added (or overwritten) with one cell per row
SetCol(df, c, vals, isNumeric) ==
    [cols |-> IF HasCol(df, c) THEN df.cols ELSE Append(df.cols, c),
     dateOk |-> df.dateOk,
     numeric |-> IF isNumeric THEN df.numeric \cup {c} ELSE df.numeric \ {c},
     rows |-> [i \in 1..Len(df.rows) |-> (c :> vals[i]) @@ df.rows[i]]]

\* df[c] = scalar
SetConst(df, c, v, isNumeric) ==
    SetCol(df, c, [i \in 1..Len(df.rows) |-> v], isNumeric)

Column(df, c) == [i \in 1..Len(df.rows) |-> df.rows[i][c]]

\* Series.max() and Series.min() of a series that is not empty
SeqMax(s) == CHOOSE x \in {s[i] : i \in 1..Len(s)} : \A i \in 1..Len(s) : s[i] <= x
SeqMin(s) == CHOOSE x \in {s[i] : i \in 1..Len(s)} : \A i \in 1..Len(s) : s[i] >= x

\* the rows of s that satisfy keep, in order
RECURSIVE SelectRows(_, _)
SelectRows(s, keep) ==
    IF s = <<>> THEN <<>>
    ELSE IF keep[1] THEN <<s[1]>> \o SelectRows(Tail(s), Tail(keep))
         ELSE SelectRows(Tail(s), Tail(keep))

\* A number that may be missing or infinite (a float after a division).
Num(v) == [k |-> "num", v |-> v]
NaN == [k |-> "nan", v |-> 0]
PosInf == [k |-> "inf", v |-> 1]
NegInf == [k |-> "inf", v |-> -1]

\* (cur - prev) / prev * 100, in hundredths of a percent
PctOf(cur, prev) ==
    IF prev = 0
    THEN (IF cur > 0 THEN PosInf ELSE IF cur < 0 THEN NegInf ELSE NaN)
    ELSE Num(((cur - prev) * 10000) \div prev)

\* Series.pct_change(periods) * 100
pct_change(vals, periods) ==
    [i \in 1..Len(vals) |->
        IF i <= periods THEN NaN ELSE PctOf(vals[i], vals[i - periods])]


\* df[c] = df[from]
CopyCol(df, c, from) == SetCol(df, c, Column(df, from), from \in df.numeric)

\* df[keep]: boolean indexing
Filter(df, keep) == [df EXCEPT !.rows = SelectRows(df.rows, keep)]

\* the members of cols that satisfy the test, in order
RECURSIVE SelectCols(_, _)
SelectCols(cols, good) ==
    IF cols = <<>> THEN <<>>
    ELSE IF cols[1] \in good THEN <<cols[1]>> \o SelectCols(Tail(cols), good)
         ELSE SelectCols(Tail(cols), good)

\* 'date' in col.lower() or 'time' in col.lower()
DateLikeNames == {"Date", "date", "last_updated_date"}

\* any(x in col.lower() for x in ['date', 'time', 'year', 'month', 'day'])
DateWordNames ==
    {"Date", "date", "last_updated_date", "year", "monthly_change",
     "yearly_adjustment"}

\* [col for col in df.columns if 'date' in col.lower() or 'time' in col.lower()]
date_cols(df) == SelectCols(df.cols, DateLikeNames)

\* numeric columns whose name holds none of the date words
value_cols(df) == SelectCols(df.cols, df.numeric \ DateWordNames)

(***************************************************************************)
(* The data directory                                                      *)
(***************************************************************************)
NoFile ==
    [exists |-> FALSE, parses |-> FALSE, cols |-> <<>>, numeric |-> {},
     dateOk |-> FALSE, rows |-> <<>>]

Csv(cols, numeric, dateOk, rows) ==
    [exists |-> TRUE, parses |-> TRUE, cols |-> cols, numeric |-> numeric,
     dateOk |-> dateOk, rows |-> rows]

\* a file of zero bytes, which pd.read_csv refuses (EmptyDataError)
ZeroBytes ==
    [exists |-> TRUE, parses |-> FALSE, cols |-> <<>>, numeric |-> {},
     dateOk |-> FALSE, rows |-> <<>>]

\* pd.read_csv(file_path)
read_csv(f) ==
    [raised |-> ~f.parses,
     df |-> [cols |-> f.cols, numeric |-> f.numeric, dateOk |-> f.dateOk,
             rows |-> f.rows]]

\* two past months, in order
GoodCsv ==
    Csv(<<"Date", "value">>, {"value"}, TRUE,
        << [Date |-> TS(22, 1, 0), value |-> 7000],
           [Date |-> TS(23, 1, 0), value |-> 7100] >>)

\* a header line and no rows
HeaderOnlyCsv == Csv(<<"Date", "value">>, {"value"}, TRUE, <<>>)

\* every row is dated after every moment of NowSet
FutureCsv ==
    Csv(<<"Date", "value">>, {"value"}, TRUE,
        << [Date |-> TS(30, 1, 0), value |-> 7300] >>)

\* the same, with a last_updated_date column of its own
FutureStampedCsv ==
    Csv(<<"Date", "value", "last_updated_date">>, {"value"}, TRUE,
        << [Date |-> TS(30, 1, 0), value |-> 7300, last_updated_date |-> 30] >>)

\* a past row and a future row
MixedCsv ==
    Csv(<<"Date", "value">>, {"value"}, TRUE,
        << [Date |-> TS(23, 1, 0), value |-> 7100],
           [Date |-> TS(30, 1, 0), value |-> 7300] >>)

\* a Date column and a text column: no value column can be found
DateOnlyCsv ==
    Csv(<<"Date", "note">>, {}, TRUE,
        << [Date |-> TS(23, 1, 0), note |-> "n/a"] >>)

\* a text column only: neither column can be found
NoteOnlyCsv == Csv(<<"note">>, {}, TRUE, << [note |-> "n/a"] >>)

\* Date and value columns, the dates unparseable
BadDateCsv ==
    Csv(<<"Date", "value">>, {"value"}, FALSE,
        << [Date |-> 0, value |-> 7000], [Date |-> 0, value |-> 7100] >>)

\* Date and value columns, the values text
TextValueCsv ==
    Csv(<<"Date", "value">>, {}, TRUE,
        << [Date |-> TS(22, 1, 0), value |-> 0],
           [Date |-> TS(23, 1, 0), value |-> 0] >>)

\* lower-case date column and a numeric price column
LowerCsv ==
    Csv(<<"date", "price">>, {"price"}, TRUE,
        << [date |-> TS(22, 1, 0), price |-> 7000],
           [date |-> TS(23, 1, 0), price |-> 6900] >>)

\* a source column that says 'sample' in its last row only
SampleSourceCsv ==
    Csv(<<"Date", "value", "source">>, {"value"}, TRUE,
        << [Date |-> TS(17, 1, 0), value |-> 7000,
            source |-> SourceText("Vendor feed", "")],
           [Date |-> TS(23, 1, 0), value |-> 7100,
            source |-> SourceText("Vendor sample feed", "")] >>)

\* a source column that says 'sample' in its first row only, which is old
OldSampleSourceCsv ==
    Csv(<<"Date", "value", "source">>, {"value"}, TRUE,
        << [Date |-> TS(10, 1, 0), value |-> 7000,
            source |-> SourceText("Vendor sample feed", "")],
           [Date |-> TS(23, 1, 0), value |-> 7100,
            source |-> SourceText("Vendor feed", "")] >>)

\* an index that ends below zero
NegativeCsv ==
    Csv(<<"Date", "value">>, {"value"}, TRUE,
        << [Date |-> TS(22, 1, 0), value |-> -40],
           [Date |-> TS(23, 1, 0), value |-> -50] >>)

\* a single past row
OneRowCsv ==
    Csv(<<"Date", "value">>, {"value"}, TRUE,
        << [Date |-> TS(23, 1, 0), value |-> 7100] >>)

\* an index that ends at zero
ZeroEndCsv ==
    Csv(<<"Date", "value">>, {"value"}, TRUE,
        << [Date |-> TS(22, 1, 0), value |-> 50],
           [Date |-> TS(23, 1, 0), value |-> 0] >>)

\* a year of months, and a year and a month, up to last month
TwelveMonthsCsv ==
    Csv(<<"Date", "value">>, {"value"}, TRUE,
        [i \in 1..12 |-> [Date |-> TS(11 + i, 1, 0), value |-> 7000 + 10 * i]])

ThirteenMonthsCsv ==
    Csv(<<"Date", "value">>, {"value"}, TRUE,
        [i \in 1..13 |-> [Date |-> TS(10 + i, 1, 0), value |-> 7000 + 10 * i]])

\* a forecast: last month, the months of NowSet's year that follow
GoodForecastCsv ==
    Csv(<<"Date", "value">>, {"value"}, TRUE,
        << [Date |-> TS(23, 1, 0), value |-> 7100],
           [Date |-> TS(24, 1, 0), value |-> 7150],
           [Date |-> TS(25, 1, 0), value |-> 7200],
           [Date |-> TS(26, 1, 0), value |-> 7250] >>)

\* a forecast made long ago: every row is before the current month
PastForecastCsv ==
    Csv(<<"Date", "value">>, {"value"}, TRUE,
        << [Date |-> TS(20, 1, 0), value |-> 6900],
           [Date |-> TS(21, 1, 0), value |-> 6950] >>)

\* a forecast whose source column says 'sample'
SampleForecastCsv ==
    Csv(<<"Date", "value", "source">>, {"value"}, TRUE,
        << [Date |-> TS(25, 1, 0), value |-> 7200,
            source |-> SourceText("Vendor sample feed", "")],
           [Date |-> TS(26, 1, 0), value |-> 7250,
            source |-> SourceText("Vendor sample feed", "")] >>)

(***************************************************************************)
(* Paths and the recursive search                                          *)
(***************************************************************************)
Basename(path) == <<path[2], path[3]>>

\* 'sample' in file_path.lower(): no directory and no indicator id says
\* 'sample', so only the _sample suffix does
PathMentionsSample(path) == path[3] = "_sample"

\* whether the file name <id2><suffix>.csv matches the glob pattern <id>*.csv
\* (and so *<id>*.csv): of the indicator ids only cruspi begins another
NameMatches(indicator_id, path) ==
    \/ path[2] = indicator_id
    \/ indicator_id = "cruspi" /\ path[2] = "cruspi_long"

\* the same for <id>*forecast*.csv and *forecast*<id>*.csv
ForecastNameMatches(indicator_id, path) ==
    NameMatches(indicator_id, path) /\ path[3] = "_forecast"

\* the subdirectories in the order os.listdir names them, read off the
\* listing order of the files
RECURSIVE SubdirsOf(_, _)
SubdirsOf(listing, seen) ==
    IF listing = <<>> THEN <<>>
    ELSE IF listing[1][1] = "base" \/ listing[1][1] \in seen
         THEN SubdirsOf(Tail(listing), seen)
         ELSE <<listing[1][1]>> \o SubdirsOf(Tail(listing), seen \cup {listing[1][1]})

RECURSIVE MatchesInDirs(_, _, _)
MatchesInDirs(dirs, listing, matching) ==
    IF dirs = <<>> THEN <<>>
    ELSE SelectSeq(listing, LAMBDA q : q[1] = dirs[1] /\ q \in matching)
         \o MatchesInDirs(Tail(dirs), listing, matching)

\* find_files_recursive(BASE_DATA_DIR, pattern): the matches in the directory
\* itself, then those one level down; matching is the set of existing files
\* the pattern matches, listing the order in which the system lists files
find_files_recursive(listing, matching) ==
    SelectSeq(listing, LAMBDA q : q[1] = "base" /\ q \in matching)
    \o MatchesInDirs(SubdirsOf(listing, {}), listing, matching)

\* os.path.exists and the content of a path; fsys records the paths that
\* were ever written, every other path is missing
FileAt(fsys, path) == IF path \in DOMAIN fsys THEN fsys[path] ELSE NoFile

Existing(fsys) == {q \in DOMAIN fsys : fsys[q].exists}

\* every order in which the system may list the files of S
Orderings(S) ==
    {s \in [1..Cardinality(S) -> S] :
        \A i, j \in 1..Cardinality(S) : i # j => s[i] # s[j]}

(***************************************************************************)
(* generate_sample_data                                                    *)
(***************************************************************************)
\* the draws of np.random.normal, in standard deviations
Noise == {-1, 0, 1}

EquipmentIds == {"komatsu_equipment", "sms_equipment", "caterpillar_equipment"}
SteelIds == {"ppi_steel_scrap", "fabricated_steel"}

\* base_value (hundredths), trend (hundredths of a percent a month) and
\* volatility (hundredths of a percent) by indicator type
SampleParams(indicator_id) ==
    IF indicator_id \in EquipmentIds THEN [base |-> 18000, trend |-> 30, vol |-> 150]
    ELSE IF indicator_id \in SteelIds THEN [base |-> 20000, trend |-> 40, vol |-> 200]
    ELSE IF indicator_id = "cement_ready_mix" THEN [base |-> 22000, trend |-> 25, vol |-> 120]
    ELSE IF indicator_id = "explosives" THEN [base |-> 17500, trend |-> 35, vol |-> 180]
    ELSE IF indicator_id = "wti_oil" THEN [base |-> 7500, trend |-> 20, vol |-> 250]
    ELSE IF indicator_id = "supply_chain" THEN [base |-> 50, trend |-> -10, vol |-> 20]
    ELSE [base |-> 10000, trend |-> 50, vol |-> 100]

\* 0.2 * sin(2 * pi * month / 12), in hundredths of a percent
Seasonal(month) ==
    <<1000, 1732, 2000, 1732, 1000, 0, -1000, -1732, -2000, -1732, -1000, 0>>[month]

\* the value of the sample series in month m: the base value in the first
\* month, then the value before times 1 + monthly_change
RECURSIVE SampleValue(_, _, _, _)
SampleValue(par, first, m, z) ==
    IF m = first THEN par.base
    ELSE (SampleValue(par, first, m - 1, z)
            * (10000 + par.trend + Seasonal(MonthOfYear(m)) + z * par.vol))
         \div 10000

\* the values of the sample series for months first .. last
SampleValues(par, first, last, z) ==
    [i \in 1..(last - first + 1) |-> SampleValue(par, first, first + i - 1, z)]

generate_sample_data(indicator_id, t, z) ==
    LET first == MonthOf(t) - 24
        \* pd.date_range(start_date, end_date, freq='MS')
        n == MonthOf(t) - first + 1
        values == SampleValues(SampleParams(indicator_id), first, MonthOf(t), z)
        cost == indicator_id \in EquipmentIds \cup SteelIds
                    \cup {"cement_ready_mix", "explosives"}
        monthly == pct_change(values, 1)
        yoy == pct_change(values, 12)
    IN  [cols |-> <<"Date", "value", "yearly_adjustment", "monthly_change",
                    "yoy_change", "source", "indicator_id", "unit",
                    "preferred_direction">>,
         numeric |-> {"value", "yearly_adjustment", "monthly_change", "yoy_change"},
         dateOk |-> TRUE,
         rows |-> [i \in 1..n |->
            [Date |-> TS(first + i - 1, 1, 0),
             value |-> values[i],
             yearly_adjustment |->
                 IF cost /\ i > 12 THEN PctOf(values[i], values[i - 12]) ELSE NaN,
             monthly_change |-> monthly[i],
             yoy_change |-> yoy[i],
             source |-> SourceText(get_default_source_name(indicator_id),
                                   " (Sample Data)"),
             indicator_id |-> indicator_id,
             unit |-> get_default_unit(indicator_id),
             preferred_direction |-> get_default_preferred_direction(indicator_id)]]]

(***************************************************************************)
(* load_indicator_data                                                     *)
(***************************************************************************)
\* what a try block hands back: a result, or nothing (an empty or
\* unresolvable file, or an exception that the except clause logs)
Nothing == [found |-> FALSE]
Loaded(df, data_source, using_sample_data) ==
    [found |-> TRUE, df |-> df, data_source |-> data_source,
     using_sample_data |-> using_sample_data]

\* the first of two attempts that hands back a result
OrElse(first, second) == IF first.found THEN first ELSE second

\* the labels the loaders return as data_source
FileLabel(text, path) == [text |-> text, file |-> Basename(path), id |-> ""]
GeneratedLabel(text, indicator_id) ==
    [text |-> text, file |-> <<>>, id |-> indicator_id]

\* 'sample' in data_source.lower()
LabelMentionsSample(label) ==
    \/ label.text \in {"Sample data", "Sample forecast data"}
    \/ label.file # <<>> /\ label.file[2] = "_sample"

\* 'direct' in data_source.lower()
LabelMentionsDirect(label) ==
    \/ label.text = "Data from direct file"
    \/ label.file # <<>> /\ label.file[2] = "_direct"

\* the columns both branches add when the file lacks them, one statement
\* of the code each
AddMonthlyChange(df) ==
    IF ~HasCol(df, "monthly_change") /\ HasCol(df, "value") /\ Len(df.rows) > 1
    THEN SetCol(df, "monthly_change", pct_change(Column(df, "value"), 1), TRUE)
    ELSE df

AddYoyChange(df) ==
    IF ~HasCol(df, "yoy_change") /\ HasCol(df, "value") /\ Len(df.rows) >= 12
    THEN SetCol(df, "yoy_change", pct_change(Column(df, "value"), 12), TRUE)
    ELSE df

AddSource(df, source_name) ==
    IF ~HasCol(df, "source")
    THEN SetConst(df, "source", SourceText(source_name, ""), FALSE)
    ELSE df

AddUnit(df, indicator_id) ==
    IF ~HasCol(df, "unit")
    THEN SetConst(df, "unit", get_default_unit(indicator_id), FALSE)
    ELSE df

AddPreferredDirection(df, indicator_id) ==
    IF ~HasCol(df, "preferred_direction")
    THEN SetConst(df, "preferred_direction",
                  get_default_preferred_direction(indicator_id), FALSE)
    ELSE df

\* df['Date'].max().strftime("%b-%y"): the month of the latest row
AddLastUpdatedDate(df) ==
    IF ~HasCol(df, "last_updated_date") /\ ~IsEmpty(df)
    THEN SetConst(df, "last_updated_date", MonthOf(SeqMax(Column(df, "Date"))), FALSE)
    ELSE df

\* whether one of these statements throws
AddMissingColumnsRaises(df) ==
    \* pct_change of a text column is a TypeError
    \/ /\ HasCol(df, "value") /\ "value" \notin df.numeric
       /\ \/ ~HasCol(df, "monthly_change") /\ Len(df.rows) > 1
          \/ ~HasCol(df, "yoy_change") /\ Len(df.rows) >= 12
    \* the maximum of no dates is NaT, and NaT has no strftime
    \/ ~HasCol(df, "last_updated_date") /\ IsEmpty(df)

AddMissingColumns(df, indicator_id, source_name) ==
    AddLastUpdatedDate(
        AddPreferredDirection(
            AddUnit(AddSource(AddYoyChange(AddMonthlyChange(df)), source_name),
                    indicator_id),
            indicator_id))

\* any(df['source'].str.contains('sample', case=False))
AnySourceMentionsSample(df) ==
    \E i \in 1..Len(df.rows) : MentionsSample(df.rows[i]["source"])

\* if 'Date' not in df.columns and 'date' in df.columns
DirectDate(df) ==
    IF ~HasCol(df, "Date") /\ HasCol(df, "date")
    THEN CopyCol(df, "Date", "date") ELSE df

\* if 'Date' not in df.columns: the first column whose name says date or time
ResolveDate(df) ==
    IF ~HasCol(df, "Date") /\ date_cols(df) # <<>>
    THEN CopyCol(df, "Date", date_cols(df)[1]) ELSE df

\* if 'value' not in df.columns: the first numeric column that is no date
ResolveValue(df) ==
    IF ~HasCol(df, "value") /\ value_cols(df) # <<>>
    THEN CopyCol(df, "value", value_cols(df)[1]) ELSE df

\* the CRUspi branch once the columns are resolved
DirectResolved(df, path, indicator_id) ==
    \* df['Date'] of a table without the column, or of unparseable text
    IF ~HasCol(df, "Date") \/ ~df.dateOk THEN Nothing
    ELSE IF AddMissingColumnsRaises(df) THEN Nothing
    ELSE Loaded(AddMissingColumns(df, indicator_id, "CRU Steel Price Index"),
                FileLabel("Data from direct file", path), FALSE)

\* a CRUspi branch that never returns: what C15_DirectFilePreferred rules out
direct_file_ignored(f, path, indicator_id) == Nothing

\* the body of the CRUspi branch for an existing raw/cruspi_direct.csv
LoadDirect(f, path, indicator_id) ==
    IF read_csv(f).raised \/ IsEmpty(read_csv(f).df) THEN Nothing
    ELSE DirectResolved(ResolveValue(DirectDate(read_csv(f).df)), path, indicator_id)

\* if df['Date'].max() > now: df = df[df['Date'] <= now]
DropFuture(df, t) ==
    IF ~IsEmpty(df) /\ SeqMax(Column(df, "Date")) > t
    THEN Filter(df, [i \in 1..Len(df.rows) |-> df.rows[i]["Date"] <= t])
    ELSE df

\* the end of the loop body: the sample check and the return
CandidateAdded(df, path) ==
    \* .str of a numeric column is an AttributeError
    IF "source" \in df.numeric THEN Nothing
    ELSE Loaded(df, FileLabel("Data from file", path),
                PathMentionsSample(path) \/ AnySourceMentionsSample(df))

\* the loop body once the future rows are dropped
CandidateFiltered(df, path, indicator_id) ==
    IF AddMissingColumnsRaises(df) THEN Nothing
    ELSE CandidateAdded(
             AddMissingColumns(df, indicator_id,
                               get_default_source_name(indicator_id)),
             path)

\* the loop body once the columns are resolved
CandidateResolved(df, path, indicator_id, t) ==
    IF ~HasCol(df, "Date") \/ ~HasCol(df, "value") THEN Nothing
    ELSE IF ~df.dateOk THEN Nothing
    ELSE CandidateFiltered(DropFuture(df, t), path, indicator_id)

\* the body of the loop over possible_files for one existing file
LoadCandidate(f, path, indicator_id, t) ==
    IF read_csv(f).raised \/ IsEmpty(read_csv(f).df) THEN Nothing
    ELSE CandidateResolved(ResolveValue(ResolveDate(read_csv(f).df)), path,
                           indicator_id, t)

\* for file_path in possible_files: the first file that loads
RECURSIVE TryFiles(_, _, _, _)
TryFiles(files, fsys, indicator_id, t) ==
    IF files = <<>> THEN Nothing
    ELSE OrElse(IF FileAt(fsys, files[1]).exists
                THEN LoadCandidate(FileAt(fsys, files[1]), files[1], indicator_id, t)
                ELSE Nothing,
                TryFiles(Tail(files), fsys, indicator_id, t))

\* the five candidates with the sample file first: an order that
\* C14_FirstLoadableCandidate rules out
sample_file_first(indicator_id) ==
    << <<"raw", indicator_id, "_sample">>,
       <<"processed", indicator_id, "_monthly">>,
       <<"processed", indicator_id, "">>,
       <<"raw", indicator_id, "">>,
       <<"base", indicator_id, "">> >>

\* the five exact candidates, in the order of the list
possible_files(indicator_id) ==
    << <<"processed", indicator_id, "_monthly">>,
       <<"processed", indicator_id, "">>,
       <<"raw", indicator_id, "">>,
       <<"raw", indicator_id, "_sample">>,
       <<"base", indicator_id, "">> >>

AnyExists(files, fsys) == \E i \in 1..Len(files) : FileAt(fsys, files[i]).exists

\* the matches of the two patterns <id>*.csv and *<id>*.csv, one after the
\* other: every match of the first is a match of the second
BothPatterns(found) == found \o found

\* a search that stops at the exact candidates: what C2_SampleOnlyWhenNoFile
\* rules out
exact_files_only(fsys, indicator_id, listing) == possible_files(indicator_id)

\* possible_files after the recursive search has extended it
SearchList(fsys, indicator_id, listing) ==
    IF ~AnyExists(possible_files(indicator_id), fsys)
    THEN possible_files(indicator_id)
         \o BothPatterns(find_files_recursive(
                listing, {q \in Existing(fsys) : NameMatches(indicator_id, q)}))
    ELSE possible_files(indicator_id)

DirectPath == <<"raw", "cruspi", "_direct">>

\* generate_sample_data tabulated over its arguments, so that a table is
\* computed once and not once per state; the series depends on the clock
\* through its month alone
SampleDataMemo ==
    [indicator_id \in IndicatorIds |->
        [m \in {MonthOf(t) : t \in NowSet} |->
            [z \in Noise |-> generate_sample_data(indicator_id, TS(m, 1, 1), z)]]]

load_indicator_data(fsys, t, indicator_id, listing, z) ==
    OrElse(IF indicator_id = "cruspi" /\ FileAt(fsys, DirectPath).exists
           THEN LoadDirect(FileAt(fsys, DirectPath), DirectPath, indicator_id)
           ELSE Nothing,
           OrElse(TryFiles(SearchList(fsys, indicator_id, listing), fsys,
                           indicator_id, t),
                  Loaded(SampleDataMemo[indicator_id][MonthOf(t)][z],
                         GeneratedLabel("Sample data", indicator_id), TRUE)))

(***************************************************************************)
(* Forecasts                                                               *)
(***************************************************************************)
\* a start that stays on the day of the month: what C8_SixMonthsFromNow
\* rules out
today(t) == t

\* datetime.now().replace(day=1): the time of day stays
CurrentMonthStart(t) == TS(MonthOf(t), 1, TodOf(t))

\* the month of the first date of a month-start range beginning at start
FirstMonth(start) == IF DayOf(start) = 1 THEN MonthOf(start) ELSE MonthOf(start) + 1

\* pd.date_range(start=start, periods=periods, freq='MS'): the first day of
\* a month on or after start, then the first days of the months that follow,
\* each at start's time of day
date_range(start, periods) ==
    [i \in 1..periods |-> TS(FirstMonth(start) + i - 1, 1, TodOf(start))]

RECURSIVE SumNum(_)
SumNum(s) == IF s = <<>> THEN 0 ELSE s[1].v + SumNum(Tail(s))

\* Series.dropna()
DropNa(changes) == SelectSeq(changes, LAMBDA c : c.k # "nan")

\* Series.mean() of numbers and infinities
Mean(kept) ==
    IF (\E i \in 1..Len(kept) : kept[i] = PosInf)
       /\ (\E i \in 1..Len(kept) : kept[i] = NegInf) THEN NaN
    ELSE IF \E i \in 1..Len(kept) : kept[i] = PosInf THEN PosInf
    ELSE IF \E i \in 1..Len(kept) : kept[i] = NegInf THEN NegInf
    ELSE Num(SumNum(kept) \div Len(kept))

\* monthly_pct_changes.mean() if not monthly_pct_changes.empty else 0.005
MeanPct(kept) == IF kept = <<>> THEN Num(50) ELSE Mean(kept)

\* the cap at 5% a month either way; a NaN fails both comparisons and stays
CapTrend(avg) ==
    IF avg.k = "nan" THEN avg
    ELSE IF avg.k = "inf" THEN Num(500 * avg.v)
    ELSE IF avg.v > 500 THEN Num(500)
    ELSE IF avg.v < -500 THEN Num(-500)
    ELSE avg

\* Series.tail(n)
TailN(s, n) == SubSeq(s, Len(s) - n + 1, Len(s))

\* the n-th projected value: the one before, or start, times
\* 1 + trend + noise, the noise sd[n] * z
RECURSIVE ProjectedValue(_, _, _, _, _)
ProjectedValue(start, n, trend, sd, z) ==
    ((IF n = 1 THEN start ELSE ProjectedValue(start, n - 1, trend, sd, z))
        * (10000 + trend[n] + sd[n] * z)) \div 10000

\* the projected values
Projected(start, n, trend, sd, z) ==
    [i \in 1..n |-> ProjectedValue(start, i, trend, sd, z)]

\* the confidence bounds of the i-th value, in millionths so that no
\* rounding blurs their order: val * (1 -/+ (first + step * i))
LowerCi(val, i, first, step) == val * (10000 - first - step * (i - 1))
UpperCi(val, i, first, step) == val * (10000 + first + step * (i - 1))

\* a value in the unit of the bounds
Scaled(val) == val * 10000

\* one row of the sample forecast
SampleForecastRow(indicator_id, date, val, i) ==
    [Date |-> date,
     value |-> val,
     lower_ci |-> LowerCi(val, i, 50, 30),
     upper_ci |-> UpperCi(val, i, 50, 30),
     source |-> SourceText(get_default_source_name(indicator_id),
                           " - FORECAST (Sample)"),
     indicator_id |-> indicator_id,
     unit |-> get_default_unit(indicator_id),
     preferred_direction |-> get_default_preferred_direction(indicator_id)]

\* the DataFrame of the sample forecast
SampleForecastFrame(indicator_id, dates, values) ==
    [cols |-> <<"Date", "value", "lower_ci", "upper_ci", "source",
                "indicator_id", "unit", "preferred_direction">>,
     numeric |-> {"value", "lower_ci", "upper_ci"},
     dateOk |-> TRUE,
     rows |-> [i \in 1..Len(dates) |->
                  SampleForecastRow(indicator_id, dates[i], values[i], i)]]

\* the values of the sample forecast: the base value, then a trend of 0.2%
\* a month with a noise that grows with the horizon
SampleForecastValues(indicator_id, dates, z) ==
    Projected(SampleParams(indicator_id).base, Len(dates),
              [i \in 1..Len(dates) |-> IF i = 1 THEN 0 ELSE 20],
              [i \in 1..Len(dates) |-> 20 * i], z)

\* the dates of both generated forecasts
forecast_dates(t) == date_range(CurrentMonthStart(t), 6)

generate_sample_forecast(indicator_id, t, z) ==
    SampleForecastFrame(indicator_id, forecast_dates(t),
                        SampleForecastValues(indicator_id, forecast_dates(t), z))

\* whether the generator throws: pct_change() of a text column
ForecastFromActualRaises(actual_data) ==
    /\ ~IsEmpty(actual_data) /\ HasCol(actual_data, "value")
    /\ Len(actual_data.rows) > 1
    /\ "value" \notin actual_data.numeric

\* actual_data['value'].tail(min(6, len(actual_data)))
recent_values(actual_data) ==
    TailN(Column(actual_data, "value"),
          IF Len(actual_data.rows) < 6 THEN Len(actual_data.rows) ELSE 6)

\* the capped average monthly change of the recent values
avg_monthly_pct_change(actual_data) ==
    CapTrend(MeanPct(DropNa(pct_change(recent_values(actual_data), 1))))

\* actual_data['value'].iloc[-1]
last_value(actual_data) == actual_data.rows[Len(actual_data.rows)]["value"]

\* the values projected from the last actual value
ActualForecastValues(start, dates, avg, z) ==
    Projected(start, Len(dates),
              [i \in 1..Len(dates) |-> avg.v],
              [i \in 1..Len(dates) |-> IF i = 1 THEN 5 ELSE 10 * (i - 1)], z)

\* one row of the forecast from actual data; val, lower and upper are NaN
\* when the average change is
ActualForecastRow(indicator_id, date, val, lower, upper) ==
    [Date |-> date, value |-> val, lower_ci |-> lower, upper_ci |-> upper,
     source |-> SourceText(get_default_source_name(indicator_id), " - FORECAST"),
     indicator_id |-> indicator_id,
     preferred_direction |-> get_default_preferred_direction(indicator_id)]

\* the DataFrame of the forecast from actual data
ActualForecastFrame(indicator_id, dates, values, known) ==
    [cols |-> <<"Date", "value", "lower_ci", "upper_ci", "source",
                "indicator_id", "preferred_direction">>,
     numeric |-> {"value", "lower_ci", "upper_ci"},
     dateOk |-> TRUE,
     rows |-> [i \in 1..Len(dates) |->
                  IF known
                  THEN ActualForecastRow(indicator_id, dates[i], values[i],
                                         LowerCi(values[i], i, 50, 50),
                                         UpperCi(values[i], i, 50, 50))
                  ELSE ActualForecastRow(indicator_id, dates[i], NaN, NaN, NaN)]]

\* if indicator_id == 'wti_oil': df['unit'] = '$'
AddOilUnit(df, indicator_id) ==
    IF indicator_id = "wti_oil" THEN SetConst(df, "unit", "$", FALSE) ELSE df

\* the forecast once the average change is computed
ForecastWithTrend(indicator_id, actual_data, dates, avg, z) ==
    AddOilUnit(
        ActualForecastFrame(indicator_id, dates,
                            ActualForecastValues(last_value(actual_data), dates,
                                                 avg, z),
                            avg.k # "nan"),
        indicator_id)

generate_sample_forecast_from_actual(indicator_id, actual_data, t, z) ==
    IF ~IsEmpty(actual_data) /\ HasCol(actual_data, "value")
       /\ Len(actual_data.rows) > 1
    THEN ForecastWithTrend(indicator_id, actual_data, forecast_dates(t),
                           avg_monthly_pct_change(actual_data), z)
    ELSE generate_sample_forecast(indicator_id, t, z)

(***************************************************************************)
(* load_forecast_data                                                      *)
(***************************************************************************)
\* df = df[df['Date'] >= current_month]
KeepFromCurrentMonth(df, t) ==
    Filter(df, [i \in 1..Len(df.rows) |-> df.rows[i]["Date"] >= CurrentMonthStart(t)])

AddIndicatorId(df, indicator_id) ==
    IF ~HasCol(df, "indicator_id")
    THEN SetConst(df, "indicator_id", indicator_id, FALSE) ELSE df

AddForecastSource(df, indicator_id) ==
    IF ~HasCol(df, "source")
    THEN SetConst(df, "source",
                  SourceText(get_default_source_name(indicator_id), " - FORECAST"),
                  FALSE)
    ELSE df

AddForecastUnit(df, indicator_id) ==
    IF ~HasCol(df, "unit") /\ indicator_id = "wti_oil"
    THEN SetConst(df, "unit", "$", FALSE) ELSE df

\* the end of the loop body: the sample check and the return
ForecastAdded(df, path) ==
    \* .str of a numeric column is an AttributeError
    IF "source" \in df.numeric THEN Nothing
    ELSE Loaded(df, FileLabel("Forecast from file", path),
                PathMentionsSample(path) \/ AnySourceMentionsSample(df))

\* a loop body that returns a table of no rows: what C10_ForecastChain
\* rules out
forecast_unfiltered(df, path, indicator_id) ==
    ForecastAdded(
        AddForecastUnit(
            AddPreferredDirection(
                AddForecastSource(AddIndicatorId(df, indicator_id), indicator_id),
                indicator_id),
            indicator_id),
        path)

\* the loop body once the past rows are dropped
ForecastFiltered(df, path, indicator_id) ==
    IF IsEmpty(df) THEN Nothing
    ELSE ForecastAdded(
             AddForecastUnit(
                 AddPreferredDirection(
                     AddForecastSource(AddIndicatorId(df, indicator_id),
                                       indicator_id),
                     indicator_id),
                 indicator_id),
             path)

\* the loop body once the file is read
ForecastRead(df, path, indicator_id, t) ==
    IF ~HasCol(df, "Date") \/ ~HasCol(df, "value") THEN Nothing
    ELSE IF ~df.dateOk THEN Nothing
    ELSE ForecastFiltered(KeepFromCurrentMonth(df, t), path, indicator_id)

\* the body of the loop over possible_files for one existing forecast file
LoadForecastCandidate(f, path, indicator_id, t) ==
    IF read_csv(f).raised \/ IsEmpty(read_csv(f).df) THEN Nothing
    ELSE ForecastRead(read_csv(f).df, path, indicator_id, t)

RECURSIVE TryForecastFiles(_, _, _, _)
TryForecastFiles(files, fsys, indicator_id, t) ==
    IF files = <<>> THEN Nothing
    ELSE OrElse(IF FileAt(fsys, files[1]).exists
                THEN LoadForecastCandidate(FileAt(fsys, files[1]), files[1],
                                           indicator_id, t)
                ELSE Nothing,
                TryForecastFiles(Tail(files), fsys, indicator_id, t))

possible_forecast_files(indicator_id) ==
    << <<"forecasts", indicator_id, "_forecast">>,
       <<"forecasts", indicator_id, "">>,
       <<"base", indicator_id, "_forecast">> >>

\* possible_files after the recursive search has extended it; no file name
\* <id><suffix>.csv matches the second pattern, *forecast*<id>*.csv
ForecastSearchList(fsys, indicator_id, listing) ==
    IF ~AnyExists(possible_forecast_files(indicator_id), fsys)
    THEN possible_forecast_files(indicator_id)
         \o find_files_recursive(
                listing,
                {q \in Existing(fsys) : ForecastNameMatches(indicator_id, q)})
    ELSE possible_forecast_files(indicator_id)

\* the forecast generated when no file gave one
GeneratedForecast(indicator_id, indicator_data, t, z) ==
    IF ~IsEmpty(indicator_data) /\ ~ForecastFromActualRaises(indicator_data)
    THEN Loaded(generate_sample_forecast_from_actual(indicator_id,
                                                     indicator_data, t, z),
                GeneratedLabel("Generated forecast based on actual data",
                               indicator_id), TRUE)
    ELSE Loaded(generate_sample_forecast(indicator_id, t, z),
                GeneratedLabel("Sample forecast data", indicator_id), TRUE)

load_forecast_data(fsys, t, indicator_id, listing, z) ==
    OrElse(TryForecastFiles(ForecastSearchList(fsys, indicator_id, listing),
                            fsys, indicator_id, t),
           GeneratedForecast(indicator_id,
                             load_indicator_data(fsys, t, indicator_id, listing, z).df,
                             t, z))

(***************************************************************************)
(* The impact classification                                               *)
(*                                                                         *)
(* A change is a number that may be missing or infinite: a percentage in   *)
(* hundredths of a percent or, with use_absolute, an absolute change in    *)
(* hundredths.                                                             *)
(***************************************************************************)
\* significance_threshold = 2.0
significance_threshold == 200
\* significance_threshold = 0.1, for absolute changes
absolute_significance_threshold == 10

\* no indicator_id given (None)
NoId == ""

\* the ids whose preferred direction get_impact_indicator overrides
OverrideIds == {"wti_oil", "ppi_steel_scrap", "dollar_index", "baltic_dry_index"}

\* change > 0, change < 0, abs(change) > threshold
IsIncrease(change) == change.k # "nan" /\ change.v > 0
IsDecrease(change) == change.k # "nan" /\ change.v < 0
Exceeds(change, threshold) ==
    \/ change.k = "inf"
    \/ change.k = "num" /\ (change.v > threshold \/ -change.v > threshold)

format_change(change, preferred_direction, use_absolute) ==
    LET sign == IF IsIncrease(change) THEN "+" ELSE ""
        style == IF preferred_direction = "down"
                 THEN (IF IsIncrease(change) THEN "negative-change"
                       ELSE "positive-change")
                 ELSE IF preferred_direction = "up"
                 THEN (IF IsIncrease(change) THEN "positive-change"
                       ELSE "negative-change")
                 ELSE "neutral-change"
    IN  IF change.k = "nan"
        THEN [text |-> [sign |-> "", change |-> NaN, suffix |-> "N/A"],
              style |-> "neutral-change"]
        ELSE [text |-> [sign |-> sign, change |-> change,
                        suffix |-> IF use_absolute THEN "" ELSE "%"],
              style |-> style]

\* a classification that takes every indicator for one whose decrease is
\* good: what C6_DirectionIsRespected rules out
every_indicator_down(preferred_direction, indicator_id) == "down"

\* the special cases: the preferred direction the classification goes by
effective_direction(preferred_direction, indicator_id) ==
    IF indicator_id # NoId /\ indicator_id \in OverrideIds
    THEN "down" ELSE preferred_direction

\* a classification that, like format_change, knows no threshold and takes
\* no side for a neutral indicator: what C7_NeutralDirection rules out
impact_without_threshold(change, preferred_direction, use_absolute, indicator_id) ==
    IF change.k = "nan" \/ preferred_direction = "neutral"
    THEN [indicator |-> "", style_class |-> <<"neutral", "-impact">>,
          impact |-> "neutral"]
    ELSE IF (preferred_direction = "down") = IsDecrease(change)
    THEN [indicator |-> "", style_class |-> <<"positive", "-impact">>,
          impact |-> "positive"]
    ELSE [indicator |-> "", style_class |-> <<"negative", "-impact">>,
          impact |-> "negative"]

get_impact_indicator(change, preferred_direction, use_absolute, indicator_id) ==
    LET threshold == IF use_absolute THEN absolute_significance_threshold
                     ELSE significance_threshold
        is_significant == Exceeds(change, threshold)
        direction == effective_direction(preferred_direction, indicator_id)
        impact ==
            IF direction = "down"
            THEN (IF IsDecrease(change) THEN "positive"
                  ELSE IF is_significant THEN "negative" ELSE "neutral")
            ELSE IF direction = "up"
            THEN (IF IsIncrease(change) THEN "positive"
                  ELSE IF is_significant THEN "negative" ELSE "neutral")
            ELSE IF is_significant
            THEN (IF IsIncrease(change) THEN "negative" ELSE "positive")
            ELSE "neutral"
        indicator ==
            IF direction = "down"
            THEN (IF IsDecrease(change) THEN "down-arrow" ELSE "up-arrow")
            ELSE (IF IsIncrease(change) THEN "up-arrow" ELSE "down-arrow")
    IN  IF change.k = "nan"
        THEN [indicator |-> "", style_class |-> <<"neutral", "-impact">>,
              impact |-> "neutral"]
        ELSE [indicator |-> indicator, style_class |-> <<impact, "-impact">>,
              impact |-> impact]

(***************************************************************************)
(* load_all_indicators                                                     *)
(***************************************************************************)
\* combined_trend > 0.7 and combined_trend < -0.7, in hundredths of a percent
trend_threshold == 70

\* Series.mean(): missing values are skipped, the mean of nothing is
\* missing.  A mean that is a number is kept as the fraction v / d, the sum
\* of the changes over their number, so that its comparison with a
\* threshold is exact.
MeanSkipNa(kept) ==
    IF kept = <<>> THEN NaN
    ELSE IF Mean(kept).k # "num" THEN Mean(kept)
    ELSE [k |-> "num", v |-> SumNum(kept), d |-> Len(kept)]

\* a + b of a mean a and a float b
AddNum(a, b) ==
    IF a.k = "nan" \/ b.k = "nan" THEN NaN
    ELSE IF a.k = "inf" /\ b.k = "inf" THEN (IF a.v = b.v THEN a ELSE NaN)
    ELSE IF a.k = "inf" THEN a
    ELSE IF b.k = "inf" THEN b
    ELSE [k |-> "num", v |-> a.v + b.v * a.d, d |-> a.d]

\* a >= bound: what C18_TrendThresholds rules out
at_or_above(a, bound) ==
    (a.k = "inf" /\ a.v > 0) \/ (a.k = "num" /\ a.v >= bound * a.d)

\* a > bound and a < bound of a mean and a number
Above(a, bound) == (a.k = "inf" /\ a.v > 0) \/ (a.k = "num" /\ a.v > bound * a.d)
Below(a, bound) == (a.k = "inf" /\ a.v < 0) \/ (a.k = "num" /\ a.v < bound * a.d)

\* recent_values.pct_change().mean() * 100
recent_trend(df) == MeanSkipNa(DropNa(pct_change(recent_values(df), 1)))

\* forecast_df is not None and not forecast_df.empty and 'value' in its columns
HasForecast(forecast_df) == ~IsEmpty(forecast_df) /\ HasCol(forecast_df, "value")

\* the change from the first forecast value to the last, 0 without two values
forecast_trend(forecast_df) ==
    IF HasForecast(forecast_df) /\ Len(forecast_df.rows) >= 2
    THEN PctOf(forecast_df.rows[Len(forecast_df.rows)]["value"],
               forecast_df.rows[1]["value"])
    ELSE Num(0)

\* the three results
TrendUp ==
    [trend_text |-> "Increasing", trend_class |-> "trend-up",
     trend_desc |-> "Prices have been trending upward."]
TrendDown ==
    [trend_text |-> "Decreasing", trend_class |-> "trend-down",
     trend_desc |-> "Prices have been trending downward."]
TrendStable(desc) ==
    [trend_text |-> "Stable", trend_class |-> "trend-stable", trend_desc |-> desc]

\* the comparison of the trend with the thresholds; with a forecast
\* combined_trend is (recent + forecast) / 2, compared through its double
CombinedTrend(recent, total, has_forecast) ==
    IF has_forecast /\ Above(total, 2 * trend_threshold) THEN TrendUp
    ELSE IF ~has_forecast /\ Above(recent, trend_threshold) THEN TrendUp
    ELSE IF has_forecast /\ Below(total, -(2 * trend_threshold)) THEN TrendDown
    ELSE IF ~has_forecast /\ Below(recent, -trend_threshold) THEN TrendDown
    ELSE TrendStable("Prices have been relatively stable.")

\* determine_trend for a table of two rows or more
TrendOf(recent, forecast, has_forecast) ==
    CombinedTrend(recent, AddNum(recent, forecast), has_forecast)

\* forecast_df is None stands for the empty table the caller passes
determine_trend(df, forecast_df) ==
    IF IsEmpty(df) \/ ~HasCol(df, "value")
    THEN TrendStable("Trend cannot be determined due to insufficient data.")
    ELSE IF Len(df.rows) >= 2
    THEN TrendOf(recent_trend(df), forecast_trend(forecast_df),
                 HasForecast(forecast_df))
    ELSE TrendStable("Prices have been relatively stable.")

\* get_trend_indicator of data_processor.py: the label and the class of
\* determine_trend without the description.  last_values is the series the
\* caller passes, None being the empty one, and all of it counts;
\* forecast_values is given or None, and given counts even when it is empty.
\* pct_change and the division of numbers raise nothing, so neither except
\* clause is reached.
TrendPair(trend) ==
    [trend_text |-> trend.trend_text, trend_class |-> trend.trend_class]

get_trend_indicator(last_values, forecast_values) ==
    IF Len(last_values) < 2 THEN TrendPair(TrendStable(""))
    ELSE TrendPair(
             TrendOf(MeanSkipNa(DropNa(pct_change(last_values, 1))),
                     IF forecast_values.given /\ Len(forecast_values.values) >= 2
                     THEN PctOf(forecast_values.values[Len(forecast_values.values)],
                                forecast_values.values[1])
                     ELSE Num(0),
                     forecast_values.given))

\* latest_data.get(col, default) of the last row
LatestGet(df, col, default) ==
    IF HasCol(df, col) THEN df.rows[Len(df.rows)][col] ELSE default

\* None
None == [k |-> "none", v |-> 0]

\* the special handling of CRUspi data from the direct file
IsDirect(indicator_id, data_source) ==
    indicator_id = "cruspi" /\ LabelMentionsDirect(data_source)

\* whether the body of the summary loop throws
SummarizeRaises(indicator_id, info) ==
    \* .str of a numeric column
    \/ /\ ~IsDirect(indicator_id, info.data_source)
       /\ HasCol(info.df, "source") /\ "source" \in info.df.numeric
    \* pct_change of a text column
    \/ /\ HasCol(info.df, "value") /\ Len(info.df.rows) >= 2
       /\ "value" \notin info.df.numeric
    \* pd.to_datetime(None) is NaT, and NaT has no strftime
    \/ ~HasCol(info.df, "Date")

\* min(last_updated, datetime.now())
NotAfter(date, t) == IF date > t THEN t ELSE date

\* the summary entry once the trend is determined
SummaryEntry(indicator_id, df, data_source, using_sample_data, trend, t) ==
    [found |-> TRUE,
     indicator_id |-> indicator_id,
     name |-> IF IsDirect(indicator_id, data_source)
              THEN SourceText("CRU Steel Price Index", "")
              ELSE LatestGet(df, "source", SourceText("", "")),
     current_value |-> LatestGet(df, "value", 0),
     monthly_change |-> LatestGet(df, "monthly_change", Num(0)),
     yoy_change |-> LatestGet(df, "yoy_change", Num(0)),
     unit |-> LatestGet(df, "unit", ""),
     preferred_direction |-> LatestGet(df, "preferred_direction", "neutral"),
     trend_text |-> trend.trend_text,
     trend_class |-> trend.trend_class,
     trend_description |-> trend.trend_desc,
     last_updated |-> MonthOf(NotAfter(LatestGet(df, "Date", 0), t)),
     data_source |-> data_source,
     using_sample_data |->
        IF IsDirect(indicator_id, data_source) THEN FALSE
        ELSE IF HasCol(df, "source") /\ AnySourceMentionsSample(df) THEN TRUE
        ELSE using_sample_data,
     yearly_adjustment |-> LatestGet(df, "yearly_adjustment", None)]

\* the body of the summary loop for one entry; found is FALSE when the
\* body threw and the entry got no summary
Summarize(indicator_id, info, forecast_df, t) ==
    IF SummarizeRaises(indicator_id, info) THEN Nothing
    ELSE SummaryEntry(indicator_id, info.df, info.data_source,
                      info.using_sample_data,
                      determine_trend(info.df, forecast_df), t)

\* whether create_correlation_matrix takes the table of an entry
Correlated(df) == ~IsEmpty(df) /\ HasCol(df, "Date") /\ HasCol(df, "value")

\* the indicators whose tables the matrix takes
Taken(all_indicators) ==
    {id \in DOMAIN all_indicators : Correlated(all_indicators[id].df)}

\* the matrix, as the set of the indicators that are its rows and columns;
\* the empty set is the empty DataFrame
create_correlation_matrix(all_indicators) ==
    IF Cardinality(DOMAIN all_indicators) < 2
       \/ Cardinality(Taken(all_indicators)) < 2
    THEN {} ELSE Taken(all_indicators)

\* df['YearMonth'] = df['Date'].dt.strftime('%Y-%m'), which
\* create_correlation_matrix writes into the caller's table
WithYearMonth(df) ==
    SetCol(df, "YearMonth",
           [i \in 1..Len(df.rows) |-> MonthOf(df.rows[i]["Date"])], FALSE)

\* the entries of a result dictionary whose table is not empty
NonEmpty(loaded) ==
    [id \in {i \in DOMAIN loaded : ~IsEmpty(loaded[i].df)} |-> loaded[id]]

\* forecasts.get(indicator_id, (None, None, None))[0]
ForecastOf(forecasts, indicator_id) ==
    IF indicator_id \in DOMAIN forecasts THEN forecasts[indicator_id].df
    ELSE [cols |-> <<>>, numeric |-> {}, dateOk |-> TRUE, rows |-> <<>>]

\* the summary loop
Summaries(all_indicators, forecasts, t) ==
    [id \in DOMAIN all_indicators |->
        Summarize(id, all_indicators[id], ForecastOf(forecasts, id), t)]

\* the entries the summary loop wrote
Summarized(summary) ==
    [id \in {i \in DOMAIN summary : summary[i].found} |-> summary[id]]

\* all_indicators as the caller sees it once the matrix is computed
AfterCorrelation(all_indicators) ==
    [id \in DOMAIN all_indicators |->
        IF Cardinality(DOMAIN all_indicators) >= 2
           /\ Correlated(all_indicators[id].df)
        THEN [all_indicators[id] EXCEPT !.df = WithYearMonth(all_indicators[id].df)]
        ELSE all_indicators[id]]

\* the four results once the tables and the forecasts are loaded
AllResults(all_indicators, forecasts, t) ==
    [all_indicators |-> AfterCorrelation(all_indicators),
     forecasts |-> forecasts,
     summary_data |-> Summarized(Summaries(all_indicators, forecasts, t)),
     corr_matrix |-> create_correlation_matrix(all_indicators)]

\* the forecast loop over the indicators that were kept
LoadForecasts(all_indicators, fsys, t, listing, z) ==
    AllResults(all_indicators,
               NonEmpty([id \in DOMAIN all_indicators |->
                            load_forecast_data(fsys, t, id, listing, z)]),
               t)

load_all_indicators(fsys, t, listing, z) ==
    LoadForecasts(NonEmpty([id \in IndicatorIds |->
                               load_indicator_data(fsys, t, id, listing, z)]),
                  fsys, t, listing, z)

(***************************************************************************)
(* The main view: filter_time_period, create_indicator_card and the Data   *)
(* Sources table                                                           *)
(***************************************************************************)
\* the choices of the time period selectbox
TimePeriods ==
    {"Last 6 Months", "Last 12 Months", "Last 24 Months", "All Available Data"}

\* date - pd.DateOffset(months=n)
MinusMonths(date, n) == date - 64 * n

\* the Date of a row whose Date cell is blank: pd.to_datetime makes it NaT
NaT == 0

\* the dates of a column that are not NaT
Dated(dates) == SelectSeq(dates, LAMBDA d : d # NaT)

\* Series.max() and Series.min() of a Date column: NaT is skipped, and is
\* the answer when nothing else is there
MaxDate(dates) == IF Dated(dates) = <<>> THEN NaT ELSE SeqMax(Dated(dates))
MinDate(dates) == IF Dated(dates) = <<>> THEN NaT ELSE SeqMin(Dated(dates))

\* start_date: the latest date less the months of the period, or the
\* earliest date for any other period; NaT less any offset is NaT
StartDate(dates, end_date, time_period) ==
    IF end_date = NaT THEN NaT
    ELSE IF time_period = "Last 6 Months" THEN MinusMonths(end_date, 6)
    ELSE IF time_period = "Last 12 Months" THEN MinusMonths(end_date, 12)
    ELSE IF time_period = "Last 24 Months" THEN MinusMonths(end_date, 24)
    ELSE MinDate(dates)

\* (Date >= start_date) & (Date <= end_date): no comparison with NaT holds
InPeriod(date, start_date, end_date) ==
    /\ date # NaT /\ start_date # NaT /\ end_date # NaT
    /\ date >= start_date /\ date <= end_date

\* the mask of the rows from start_date to end_date
PeriodMask(dates, start_date, end_date) ==
    [i \in 1..Len(dates) |-> InPeriod(dates[i], start_date, end_date)]

\* the rows from start_date to the latest date; a row with the latest date
\* passes the mask whenever any row does, so the branch that would add it
\* back never runs
filter_time_period(df, time_period) ==
    IF df = None THEN df
    ELSE IF IsEmpty(df) \/ ~HasCol(df, "Date") THEN df
    ELSE Filter(df, PeriodMask(Column(df, "Date"),
                               StartDate(Column(df, "Date"),
                                         MaxDate(Column(df, "Date")),
                                         time_period),
                               MaxDate(Column(df, "Date"))))

\* what get_valid_update_date may be handed: a datetime (NaT for a blank
\* cell), a text that reads as the date v, a text that reads as no date, or
\* None
Datetime(ts) == [k |-> "datetime", v |-> ts]
DateString(ts) == [k |-> "str", v |-> ts]
NotADate == [k |-> "text", v |-> NaT]

\* pd.to_datetime(date_value), which a datetime is not put through: the date
\* a text reads as, NaT for None, and an exception for any other text
to_datetime(date_value) ==
    [raised |-> date_value.k = "text",
     v |-> IF date_value.k \in {"datetime", "str"} THEN date_value.v ELSE NaT]

\* strftime('%b %d, %Y'): the month, the day of the month and the year
DateText(ts) == [text |-> "date", month |-> MonthOf(ts), day |-> DayOf(ts)]

\* the string "Unknown"
Unknown == [text |-> "Unknown"]

\* no badge: the card was not drawn that far
NoBadge == [text |-> ""]

\* the date as it is, with no look at the clock
unclamped_update_date(date_value, t) ==
    IF to_datetime(date_value).raised THEN Unknown
    ELSE IF to_datetime(date_value).v = NaT THEN Unknown
    ELSE DateText(to_datetime(date_value).v)

\* the date of the last-updated badge (indicator_card.py): never after the
\* clock; NaT is not after the clock and has no strftime, and every
\* exception is answered with "Unknown"
get_valid_update_date(date_value, t) ==
    IF to_datetime(date_value).raised THEN Unknown
    ELSE IF to_datetime(date_value).v = NaT THEN Unknown
    ELSE IF to_datetime(date_value).v > t THEN DateText(t)
    ELSE DateText(to_datetime(date_value).v)

\* the copy of it in data_loader.py, the same text line for line
data_loader_get_valid_update_date(date_value, t) ==
    IF to_datetime(date_value).raised THEN Unknown
    ELSE IF to_datetime(date_value).v = NaT THEN Unknown
    ELSE IF to_datetime(date_value).v > t THEN DateText(t)
    ELSE DateText(to_datetime(date_value).v)

\* latest_data = df.iloc[-1]: the last row of the table as it stands
latest_data(df) == df.rows[Len(df.rows)]

\* the three metrics at the head of the card: the current value, and the
\* monthly and the year-over-year change, N/A (NaN) without the column
CardMetrics(df) ==
    [current_value |-> latest_data(df)["value"],
     monthly_change |-> IF HasCol(df, "monthly_change")
                        THEN latest_data(df)["monthly_change"] ELSE NaN,
     yoy_change |-> IF HasCol(df, "yoy_change")
                    THEN latest_data(df)["yoy_change"] ELSE NaN]

\* no metrics: the card was not drawn
NoMetrics == [current_value |-> 0, monthly_change |-> NaN, yoy_change |-> NaN]

\* st.warning("No data available for ..."): nothing else is drawn
NoCard ==
    [rendered |-> FALSE, metrics |-> NoMetrics, change_style |-> "",
     impact_type |-> "", sample_warning |-> FALSE, last_updated |-> NoBadge]

\* what the card shows of the data: the month-over-month style and impact,
\* the sample data warning and the last-updated badge.  The chart and the
\* forecast note print in try blocks of their own and decide none of these.
create_indicator_card(indicator_id, indicator_info, use_absolute, t) ==
    LET df == indicator_info.df
        data_source == indicator_info.data_source
        preferred_direction == LatestGet(df, "preferred_direction", "neutral")
        monthly_change == LatestGet(df, "monthly_change", NaN)
        has_change == HasCol(df, "monthly_change") /\ monthly_change.k # "nan"
        is_sample ==
            \/ indicator_info.using_sample_data
            \/ LabelMentionsSample(data_source)
            \/ HasCol(df, "source") /\ AnySourceMentionsSample(df)
    IN  IF IsEmpty(df) \/ ~HasCol(df, "value") THEN NoCard
        \* .str of a numeric column: the card stops at the except clause
        ELSE IF HasCol(df, "source") /\ "source" \in df.numeric
        THEN [rendered |-> TRUE,
              metrics |-> CardMetrics(df),
              change_style |->
                  IF has_change
                  THEN format_change(monthly_change, preferred_direction,
                                     use_absolute).style
                  ELSE "",
              impact_type |->
                  IF has_change
                  THEN get_impact_indicator(monthly_change, preferred_direction,
                                            use_absolute, indicator_id).impact
                  ELSE "",
              sample_warning |-> FALSE, last_updated |-> NoBadge]
        ELSE [rendered |-> TRUE,
              metrics |-> CardMetrics(df),
              change_style |->
                  IF has_change
                  THEN format_change(monthly_change, preferred_direction,
                                     use_absolute).style
                  ELSE "",
              impact_type |->
                  IF has_change
                  THEN get_impact_indicator(monthly_change, preferred_direction,
                                            use_absolute, indicator_id).impact
                  ELSE "",
              sample_warning |-> is_sample,
              last_updated |->
                  IF HasCol(df, "Date")
                  THEN get_valid_update_date(
                           Datetime(LatestGet(df, "Date", NaT)), t)
                  ELSE Unknown]

\* the indicators the main view draws a card for
CardIds ==
    {"supply_chain", "empire_prices_paid", "cruspi", "wti_oil",
     "baltic_dry_index", "dollar_index", "ppi_steel_scrap", "pmi_input_us",
     "ism_supplier_deliveries"}

\* the two programs that draw the main view
Apps == {"streamlit_app", "main"}

\* the Data Type column of the Data Sources table, by indicator
DataSourcesTable(app, all_indicators) ==
    [id \in {i \in DOMAIN all_indicators : ~IsEmpty(all_indicators[i].df)} |->
        LET df == all_indicators[id].df
            is_sample ==
                \/ all_indicators[id].using_sample_data
                \/ /\ app = "main"
                   /\ \/ LabelMentionsSample(all_indicators[id].data_source)
                      \/ HasCol(df, "source") /\ MentionsSample(df.rows[1]["source"])
        IN  IF is_sample THEN "Sample Data" ELSE "Actual Data"]

\* the cards of the main view, by indicator
MainViewCards(all_indicators, time_period, t) ==
    LET data == [id \in CardIds \cap DOMAIN all_indicators |->
                    filter_time_period(all_indicators[id].df, time_period)]
    IN  [id \in {i \in DOMAIN data : ~IsEmpty(data[i])} |->
            create_indicator_card(id,
                                  [all_indicators[id] EXCEPT !.df = data[id]],
                                  id = "supply_chain", t)]

\* the tables the cards of the main view are drawn from
MainViewData(all_indicators, time_period) ==
    [id \in CardIds \cap DOMAIN all_indicators |->
        filter_time_period(all_indicators[id].df, time_period)]

\* what the loader said of each indicator, for the reader of the view
LoaderSaid(all_indicators) ==
    [id \in DOMAIN all_indicators |->
        [using_sample_data |-> all_indicators[id].using_sample_data,
         data_source |-> all_indicators[id].data_source,
         sources |-> IF HasCol(all_indicators[id].df, "source")
                     THEN {all_indicators[id].df.rows[i]["source"] :
                              i \in 1..Len(all_indicators[id].df.rows)}
                     ELSE {}]]

(***************************************************************************)
(* Charts: create_indicator_chart                                          *)
(*                                                                         *)
(* The y values of a trace are in thousandths, ten times the unit of the   *)
(* tables, so that the weighted first forecast point is a whole number.    *)
(***************************************************************************)
\* a value of a table on the y axis
Plotted(v) == v * 10

\* last_hist_value * 0.7 + first_forecast_value * 0.3
adjusted_first_value(last_hist_value, first_forecast_value) ==
    7 * last_hist_value + 3 * first_forecast_value

\* 'lower_ci' in columns and 'upper_ci' in columns
HasCi(forecast_df) == HasCol(forecast_df, "lower_ci") /\ HasCol(forecast_df, "upper_ci")

\* ci_range * 0.3 of the first forecast row
NarrowedCi(row) == 3 * (row["upper_ci"] - row["lower_ci"])

\* the forecast values as they are, the first one not adjusted
unadjusted_values(forecast_df, last_hist_value) ==
    [i \in 1..Len(forecast_df.rows) |-> Plotted(forecast_df.rows[i]["value"])]

\* adjusted_forecast_df['value']: the first value is replaced
AdjustedValues(forecast_df, last_hist_value) ==
    [i \in 1..Len(forecast_df.rows) |->
        IF i = 1
        THEN adjusted_first_value(last_hist_value, forecast_df.rows[1]["value"])
        ELSE Plotted(forecast_df.rows[i]["value"])]

\* adjusted_forecast_df['lower_ci'] (sign -1) and ['upper_ci'] (sign 1)
AdjustedCi(forecast_df, last_hist_value, c, sign) ==
    [i \in 1..Len(forecast_df.rows) |->
        IF i = 1
        THEN adjusted_first_value(last_hist_value, forecast_df.rows[1]["value"])
             + sign * NarrowedCi(forecast_df.rows[1])
        ELSE Plotted(forecast_df.rows[i][c])]

\* a trace that is not drawn
NoTrace == [drawn |-> FALSE, x |-> <<>>, y |-> <<>>]
Trace(x, y) == [drawn |-> TRUE, x |-> x, y |-> y]

\* the forecast line: the last historical point, then the adjusted forecast
ForecastTrace(forecast_df, last_hist_date, last_hist_value) ==
    Trace(<<last_hist_date>> \o Column(forecast_df, "Date"),
          <<Plotted(last_hist_value)>> \o AdjustedValues(forecast_df, last_hist_value))

\* one bound of the confidence area, from the last historical point on
CiTrace(forecast_df, last_hist_date, last_hist_value, c, sign) ==
    IF HasCi(forecast_df)
    THEN Trace(<<last_hist_date>> \o Column(forecast_df, "Date"),
               <<Plotted(last_hist_value)>>
                   \o AdjustedCi(forecast_df, last_hist_value, c, sign))
    ELSE NoTrace

\* show_forecast and forecast_df is not None and not forecast_df.empty and
\* 'Date' in forecast_df.columns and 'value' in forecast_df.columns; an
\* absent forecast_df is the empty table
ForecastShown(forecast_df, show_forecast) ==
    /\ show_forecast
    /\ ~IsEmpty(forecast_df)
    /\ HasCol(forecast_df, "Date")
    /\ HasCol(forecast_df, "value")

\* no figure: create_indicator_chart returns None
NoFigure ==
    [figure |-> FALSE, historical |-> NoTrace, forecast |-> NoTrace,
     lower_ci |-> NoTrace, upper_ci |-> NoTrace]

\* the figure with the traces the forecast adds
FigureWithForecast(df, forecast_df, last_hist_date, last_hist_value) ==
    [figure |-> TRUE,
     historical |-> Trace(Column(df, "Date"),
                          [i \in 1..Len(df.rows) |-> Plotted(df.rows[i]["value"])]),
     forecast |-> ForecastTrace(forecast_df, last_hist_date, last_hist_value),
     lower_ci |-> CiTrace(forecast_df, last_hist_date, last_hist_value,
                          "lower_ci", -1),
     upper_ci |-> CiTrace(forecast_df, last_hist_date, last_hist_value,
                          "upper_ci", 1)]

\* the traces of the figure create_indicator_chart returns
create_indicator_chart(df, forecast_df, show_forecast) ==
    IF IsEmpty(df) \/ ~HasCol(df, "Date") \/ ~HasCol(df, "value") THEN NoFigure
    ELSE IF ForecastShown(forecast_df, show_forecast)
    THEN FigureWithForecast(df, forecast_df, df.rows[Len(df.rows)]["Date"],
                            df.rows[Len(df.rows)]["value"])
    ELSE [figure |-> TRUE,
          historical |-> Trace(Column(df, "Date"),
                               [i \in 1..Len(df.rows) |->
                                   Plotted(df.rows[i]["value"])]),
          forecast |-> NoTrace, lower_ci |-> NoTrace, upper_ci |-> NoTrace]

(***************************************************************************)
(* create_correlation_matrix: the monthly series the matrix is computed of *)
(***************************************************************************)
\* the keys of df.groupby('YearMonth')
YearMonths(df) == {MonthOf(df.rows[i]["Date"]) : i \in 1..Len(df.rows)}

\* the first row of the month, which groupby('YearMonth').first() would keep
first_of_month(df, m) ==
    CHOOSE i \in 1..Len(df.rows) :
        /\ MonthOf(df.rows[i]["Date"]) = m
        /\ \A j \in 1..(i - 1) : MonthOf(df.rows[j]["Date"]) # m

\* the row groupby('YearMonth').last() keeps: the last row of the month, in
\* the order of the table
LastOfMonth(df, m) ==
    CHOOSE i \in 1..Len(df.rows) :
        /\ MonthOf(df.rows[i]["Date"]) = m
        /\ \A j \in (i + 1)..Len(df.rows) : MonthOf(df.rows[j]["Date"]) # m

\* monthly[['YearMonth', 'value']]: one value by month
Monthly(df) == [m \in YearMonths(df) |-> df.rows[LastOfMonth(df, m)]["value"]]

\* monthly_data: the series of every table taken, by indicator
monthly_data(all_indicators) ==
    [id \in Taken(all_indicators) |-> Monthly(all_indicators[id].df)]

\* merged_df before corr(): the outer merge keeps every series as one column,
\* a month a series lacks being a missing value; no matrix, no series
merged_df(all_indicators) ==
    IF create_correlation_matrix(all_indicators) = {}
    THEN [id \in {} |-> <<>>]
    ELSE monthly_data(all_indicators)

(***************************************************************************)
(* setup_data_dir.py                                                       *)
(*                                                                         *)
(* The script runs in the project directory.  The files of the data        *)
(* directory have the paths <<"raw" | "processed" | "forecasts", id,       *)
(* suffix>>; those of an indicator_data tree beside it have the directory  *)
(* names "indicator_data/raw" and so on.  A file carries the time of its   *)
(* last modification, mtime.  ensure_dir_structure creates directories     *)
(* only, which the paths of the files imply, and changes no file.          *)
(***************************************************************************)
\* a file last modified at t
Stamped(f, t) == [mtime |-> t] @@ f

\* glob(os.path.join(dir_path, "*.cache.*")): a name such as
\* wti_oil.cache.csv
IsCacheFile(path) ==
    path[1] \in {"raw", "processed", "forecasts"} /\ path[3] = ".cache"

\* the cache files are removed before anything else
RemoveCacheFiles(fsys) == [q \in {p \in DOMAIN fsys : ~IsCacheFile(p)} |-> fsys[q]]

\* the directories the six glob patterns of find_sample_data name, in order
SetupPatterns ==
    <<"indicator_data/raw", "indicator_data/processed",
      "indicator_data/forecasts", "raw", "processed", "forecasts">>

\* the matches of the patterns, one pattern after the other, each in the
\* order the system lists the files
RECURSIVE FoundIn(_, _)
FoundIn(listing, dirs) ==
    IF dirs = <<>> THEN <<>>
    ELSE SelectSeq(listing, LAMBDA q : q[1] = dirs[1]) \o FoundIn(listing, Tail(dirs))

\* 'cruspi_direct' in file.lower()
IsCruspiDirect(path) == path[2] = "cruspi" /\ path[3] = "_direct"

\* the first CRUspi direct file is moved to the front
Prioritized(found_files) ==
    IF \E i \in 1..Len(found_files) : IsCruspiDirect(found_files[i])
    THEN <<found_files[CHOOSE i \in 1..Len(found_files) :
                /\ IsCruspiDirect(found_files[i])
                /\ \A j \in 1..(i - 1) : ~IsCruspiDirect(found_files[j])]>>
         \o SelectSeq(found_files,
                LAMBDA q : q # found_files[CHOOSE i \in 1..Len(found_files) :
                    /\ IsCruspiDirect(found_files[i])
                    /\ \A j \in 1..(i - 1) : ~IsCruspiDirect(found_files[j])])
    ELSE found_files

find_sample_data(listing) == Prioritized(FoundIn(listing, SetupPatterns))

\* the key of dest_map that the path of the source file contains: the name
\* of its directory, no indicator id and no suffix containing any
DestKey(path) ==
    IF path[1] \in {"raw", "indicator_data/raw"} THEN "raw"
    ELSE IF path[1] \in {"processed", "indicator_data/processed"} THEN "processed"
    ELSE "forecasts"

\* the state of copy_data_files between two source files
CopyState(fsys, copied_count, cruspi_processed) ==
    [fs |-> fsys, copied_count |-> copied_count,
     cruspi_processed |-> cruspi_processed]

\* shutil.copy2(source_file, dest_file): content and mtime
Copy2(fsys, source_file, dest_file) ==
    [q \in DOMAIN fsys \cup {dest_file} |->
        IF q = dest_file THEN fsys[source_file] ELSE fsys[q]]

\* the CRUspi direct file goes to raw/cruspi_direct.csv and to
\* processed/cruspi.csv whatever is there; copying the file onto itself
\* raises SameFileError, which is logged, and nothing is counted
CopyDirect(source_file, st) ==
    IF source_file = <<"raw", "cruspi", "_direct">> THEN st
    ELSE CopyState(Copy2(Copy2(st.fs, source_file, <<"raw", "cruspi", "_direct">>),
                         source_file, <<"processed", "cruspi", "">>),
                   st.copied_count + 2, TRUE)

\* 'cruspi_sample' in source_file.lower() or 'cruspi.csv' in source_file.lower()
IsCruspiSampleOrPlain(path) ==
    path[2] = "cruspi" /\ path[3] \in {"_sample", ""}

\* only copy if destination doesn't exist or source is newer
CopyRegular(source_file, dest_file, st) ==
    IF dest_file \notin DOMAIN st.fs
       \/ st.fs[source_file].mtime > st.fs[dest_file].mtime
    THEN CopyState(Copy2(st.fs, source_file, dest_file), st.copied_count + 1,
                   st.cruspi_processed)
    ELSE st

\* the body of the loop over the source files
CopyOne(source_file, st) ==
    IF IsCruspiDirect(source_file) THEN CopyDirect(source_file, st)
    ELSE IF st.cruspi_processed /\ IsCruspiSampleOrPlain(source_file) THEN st
    ELSE CopyRegular(source_file,
                     <<DestKey(source_file), source_file[2], source_file[3]>>, st)

RECURSIVE CopyFiles(_, _)
CopyFiles(source_files, st) ==
    IF source_files = <<>> THEN st
    ELSE CopyFiles(Tail(source_files), CopyOne(source_files[1], st))

copy_data_files(fsys, source_files) ==
    CopyFiles(source_files, CopyState(fsys, 0, FALSE))

\* the indicators create_sample_data writes files for; base_value in hundredths
SetupIndicators ==
    << [id |-> "cruspi", name |-> "CRU Steel Price Index", base_value |-> 16000,
        unit |-> ""],
       [id |-> "wti_oil", name |-> "WTI Crude Oil Price", base_value |-> 7500,
        unit |-> "$"],
       [id |-> "supply_chain", name |-> "NY Fed Supply Chain Pressure Index",
        base_value |-> 50, unit |-> ""],
       [id |-> "ppi_steel_scrap", name |-> "BLS Steel Scrap Price Index",
        base_value |-> 55000, unit |-> ""],
       [id |-> "komatsu_equipment", name |-> "Komatsu Heavy Equipment Cost Index",
        base_value |-> 20000, unit |-> ""] >>

\* 0.01 * sin(2 * pi * i / 12), in hundredths of a percent
SetupSeasonal(i) ==
    <<0, 50, 87, 100, 87, 50, 0, -50, -87, -100, -87, -50>>[(i % 12) + 1]

\* values[i] of create_sample_data, i counted from 0
RECURSIVE SetupValue(_, _, _)
SetupValue(base_value, i, z) ==
    IF i = 0 THEN base_value
    ELSE (SetupValue(base_value, i - 1, z)
            * (10000 + 20 + SetupSeasonal(i) + z * 100)) \div 10000

\* pd.date_range(start=end_date - timedelta(days=730), end=end_date,
\* freq='MS'): the firsts of the months from two years back, at the time of
\* day of the clock; that of two years back is among them when the clock
\* stands on the first of a month
SetupDates(t) ==
    [i \in 1..(IF DayOf(t) = 1 THEN 25 ELSE 24) |->
        TS(MonthOf(t) - 24 + (IF DayOf(t) = 1 THEN 0 ELSE 1) + i - 1, 1, TodOf(t))]

\* 'down' if 'cost' in indicator['id'] or indicator['id'] == 'supply_chain'
SetupDirection(id) == IF id = "supply_chain" THEN "down" ELSE "neutral"

\* one row of a sample file, its monthly and yearly change given
SetupRow(indicator, date, val, monthly, yoy) ==
    [Date |-> date, value |-> val, monthly_change |-> monthly, yoy_change |-> yoy,
     source |-> SourceText(indicator.name, " (Sample Data)"),
     indicator_id |-> indicator.id, unit |-> indicator.unit,
     preferred_direction |-> SetupDirection(indicator.id),
     description |-> SourceText("Sample data for ", indicator.name)]

\* df of create_sample_data for the values
SetupFrame(indicator, dates, values) ==
    Csv(<<"Date", "value", "monthly_change", "yoy_change", "source",
          "indicator_id", "unit", "preferred_direction", "description">>,
        {"value", "monthly_change", "yoy_change"}, TRUE,
        [i \in 1..Len(dates) |->
            SetupRow(indicator, dates[i], values[i],
                     IF i <= 1 THEN NaN ELSE PctOf(values[i], values[i - 1]),
                     IF i <= 12 THEN NaN ELSE PctOf(values[i], values[i - 12]))])

\* the sample file of an indicator
SetupSampleFile(indicator, t, z) ==
    SetupFrame(indicator, SetupDates(t),
               [i \in 1..Len(SetupDates(t)) |->
                   SetupValue(indicator.base_value, i - 1, z)])

\* one row of a sample forecast file
SetupForecastRow(indicator, date, val, i) ==
    [Date |-> date, value |-> val,
     lower_ci |-> LowerCi(val, i, 100, 50), upper_ci |-> UpperCi(val, i, 100, 50),
     source |-> SourceText(indicator.name, " - FORECAST (Sample)"),
     indicator_id |-> indicator.id, unit |-> indicator.unit,
     preferred_direction |-> SetupDirection(indicator.id)]

\* forecast_df of create_sample_data for the dates and the values
SetupForecastFrame(indicator, dates, values) ==
    Csv(<<"Date", "value", "lower_ci", "upper_ci", "source", "indicator_id",
          "unit", "preferred_direction">>,
        {"value", "lower_ci", "upper_ci"}, TRUE,
        [i \in 1..Len(dates) |-> SetupForecastRow(indicator, dates[i], values[i], i)])

\* the sample forecast file: six months from the clock on, the values from
\* the last sample value on with a trend of 0.2% from the second
SetupForecastFile(indicator, t, z) ==
    SetupForecastFrame(indicator, date_range(t, 6),
        Projected(SetupValue(indicator.base_value, Len(SetupDates(t)) - 1, z), 6,
                  [i \in 1..6 |-> IF i = 1 THEN 0 ELSE 20],
                  [i \in 1..6 |-> 50], z))

\* the files create_sample_data writes, by path
SetupSampleFiles(t, z) ==
    [q \in {<<"processed", SetupIndicators[i].id, "">> : i \in 1..5}
           \cup {<<"forecasts", SetupIndicators[i].id, "_forecast">> : i \in 1..5} |->
        IF q[1] = "processed"
        THEN Stamped(SetupSampleFile(
                 SetupIndicators[CHOOSE i \in 1..5 : SetupIndicators[i].id = q[2]],
                 t, z), t)
        ELSE Stamped(SetupForecastFile(
                 SetupIndicators[CHOOSE i \in 1..5 : SetupIndicators[i].id = q[2]],
                 t, z), t)]

\* df.to_csv(output_file) and forecast_df.to_csv(forecast_file) of every
\* indicator: whatever is at the path is overwritten
create_sample_data(fsys, samples) ==
    [q \in DOMAIN fsys \cup DOMAIN samples |->
        IF q \in DOMAIN samples THEN samples[q] ELSE fsys[q]]

\* the end of the main sequence: sample data if no file was copied
SetupCreated(source_files, copied, samples) ==
    [source_files |-> source_files,
     copied_count |-> copied.copied_count,
     created |-> copied.copied_count = 0,
     copied_fs |-> copied.fs,
     fs |-> IF copied.copied_count = 0
            THEN create_sample_data(copied.fs, samples) ELSE copied.fs]

\* the main sequence once the cache files are removed
SetupFound(fsys, source_files, samples) ==
    SetupCreated(source_files, copy_data_files(fsys, source_files), samples)

\* the sample files by clock and noise, computed once
SetupSamplesMemo ==
    [t \in NowSet, z \in Noise |-> SetupSampleFiles(t, z)]

\* the script: listing is the order in which the system lists the files
setup_data_dir(fsys, listing, t, z) ==
    SetupFound(RemoveCacheFiles(fsys),
               find_sample_data(SelectSeq(listing, LAMBDA q : ~IsCacheFile(q))),
               SetupSamplesMemo[t, z])

(***************************************************************************)
(* The forecast on a card and in the commentary                            *)
(*                                                                         *)
(* create_indicator_card loads the forecast for its chart and loads it     *)
(* again for its forecast note; the main view takes the forecast of the    *)
(* commentary from what load_all_indicators returned.  A generated         *)
(* forecast draws its noise from np.random, which nothing seeds, so every  *)
(* call draws its own: z of a call stands for what that call drew.         *)
(***************************************************************************)
\* no forecast table
NoForecast == [cols |-> <<>>, numeric |-> {}, dateOk |-> TRUE, rows |-> <<>>]

\* the chart of the card: drawn without the forecast first, and drawn again
\* with it when it is asked for and load_forecast_data gave a table that is
\* not empty
CardChart(df, forecast_df, show_forecast) ==
    IF show_forecast /\ ~IsEmpty(forecast_df)
    THEN create_indicator_chart(df, forecast_df, TRUE)
    ELSE create_indicator_chart(df, NoForecast, FALSE)

\* no forecast note
NoNote == [shown |-> FALSE, value |-> 0, forecast_change |-> 0]

\* the forecast note of the card: the value of the last forecast row and its
\* change from the latest value; a missing value column is a KeyError,
\* which is logged
ForecastNote(df, forecast_df, show_forecast) ==
    IF show_forecast /\ ~IsEmpty(forecast_df)
       /\ HasCol(forecast_df, "value") /\ HasCol(df, "value")
    THEN [shown |-> TRUE,
          value |-> forecast_df.rows[Len(forecast_df.rows)]["value"],
          forecast_change |-> forecast_df.rows[Len(forecast_df.rows)]["value"]
                                  - df.rows[Len(df.rows)]["value"]]
    ELSE NoNote

\* forecast_change of the commentary of the main view, absolute as for the
\* supply chain index: None without the toggle or without a forecast
CommentaryForecast(indicator_id, df, forecasts, forecast_toggle) ==
    IF forecast_toggle /\ indicator_id \in DOMAIN forecasts
       /\ ~IsEmpty(ForecastOf(forecasts, indicator_id))
       /\ HasCol(ForecastOf(forecasts, indicator_id), "value")
    THEN ForecastNote(df, ForecastOf(forecasts, indicator_id), TRUE)
    ELSE NoNote

\* a card with its chart and its note, and the commentary under it
CardWithForecast(indicator_id, df, chart_fc, note_fc, forecasts, show_forecast) ==
    [chart |-> CardChart(df, chart_fc, show_forecast),
     note |-> ForecastNote(df, note_fc, show_forecast),
     commentary |-> CommentaryForecast(indicator_id, df, forecasts, show_forecast)]

(***************************************************************************)
(* The state machine                                                       *)
(*                                                                         *)
(* fs is the data directory: the files that exist, by path.  now is the    *)
(* clock.  out is what the operation that ran last returned, with the      *)
(* arguments it was called with; NoOutput when no call is being looked at. *)
(* The directory and the clock change between calls, so out is always the  *)
(* result of a call made in the state at hand.                             *)
(***************************************************************************)
\* how many files the data directory holds at most
MaxFiles == 2

\* the largest change the classification is called with, in hundredths
MaxChange == 250

NoOutput == [op |-> "none"]

EmptyDir == [q \in {} |-> NoFile]

\* the files written under the names load_indicator_data searches
IndicatorPlacements ==
    ({<<"raw", "cruspi", "_direct">>}
        \X {GoodCsv, HeaderOnlyCsv, DateOnlyCsv, BadDateCsv, LowerCsv,
            SampleSourceCsv, OldSampleSourceCsv})
    \cup
    ({<<"processed", "wti_oil", "_monthly">>}
        \X {GoodCsv, HeaderOnlyCsv, ZeroBytes, FutureCsv, FutureStampedCsv,
            MixedCsv, DateOnlyCsv, BadDateCsv, TextValueCsv, LowerCsv,
            SampleSourceCsv})
    \cup
    ({<<"processed", "wti_oil", "">>}
        \X {GoodCsv, HeaderOnlyCsv, FutureStampedCsv, TextValueCsv,
            SampleSourceCsv})
    \cup
    ({<<"raw", "wti_oil", "_sample">>} \X {GoodCsv, BadDateCsv, ZeroBytes})
    \cup
    ({<<"processed", "supply_chain", "">>}
        \X {TwelveMonthsCsv, ThirteenMonthsCsv, ZeroEndCsv})
    \cup
    ({<<"raw", "wti_oil", "_2024">>, <<"processed", "cruspi_long", "">>,
      <<"processed", "cruspi", "">>}
        \X {GoodCsv, NoteOnlyCsv, NegativeCsv})

\* the files written before the main view is drawn
ViewPlacements ==
    ({<<"raw", "cruspi", "_direct">>}
        \X {GoodCsv, DateOnlyCsv, SampleSourceCsv, OldSampleSourceCsv})
    \cup
    ({<<"processed", "wti_oil", "">>}
        \X {GoodCsv, HeaderOnlyCsv, FutureCsv, FutureStampedCsv, SampleSourceCsv})
    \cup
    ({<<"raw", "wti_oil", "_sample">>} \X {GoodCsv})
    \cup
    ({<<"processed", "supply_chain", "">>} \X {GoodCsv, NegativeCsv})

\* the files written under the names load_forecast_data searches, and the
\* indicator files it generates forecasts from
ForecastPlacements ==
    ({<<"forecasts", "wti_oil", "_forecast">>}
        \X {GoodForecastCsv, PastForecastCsv, SampleForecastCsv, HeaderOnlyCsv,
            ZeroBytes, DateOnlyCsv, BadDateCsv})
    \cup
    ({<<"forecasts", "wti_oil", "">>, <<"raw", "wti_oil", "_forecast">>}
        \X {GoodForecastCsv, PastForecastCsv})
    \cup
    ({<<"processed", "wti_oil", "">>}
        \X {GoodCsv, FutureStampedCsv, OneRowCsv})
    \cup
    ({<<"processed", "supply_chain", "">>} \X {NegativeCsv, ZeroEndCsv})
    \cup
    ({<<"raw", "cruspi", "_direct">>} \X {DateOnlyCsv})

\* a file is written or overwritten
PutFile(placements) ==
    /\ out = NoOutput
    /\ \E pl \in placements :
        /\ pl[1] \in DOMAIN fs \/ Cardinality(DOMAIN fs) < MaxFiles
        /\ fs' = [q \in DOMAIN fs \cup {pl[1]} |-> IF q = pl[1] THEN pl[2] ELSE fs[q]]
        /\ UNCHANGED <<now, out>>

\* a file is deleted
RemoveFile ==
    /\ out = NoOutput
    /\ \E p \in DOMAIN fs :
        /\ fs' = [q \in DOMAIN fs \ {p} |-> fs[q]]
        /\ UNCHANGED <<now, out>>

\* time passes
Tick ==
    /\ out = NoOutput
    /\ \E t \in NowSet : t > now /\ now' = t
    /\ UNCHANGED <<fs, out>>

\* the caller is done with what the last call returned
Return ==
    /\ out # NoOutput
    /\ out' = NoOutput
    /\ UNCHANGED <<fs, now>>

\* the indicators load_indicator_data is called for on its own: those the
\* placements name and two that have no file
LoadIds == {"cruspi", "cruspi_long", "wti_oil", "supply_chain", "explosives"}

LoadIndicatorData ==
    /\ out = NoOutput
    /\ \E indicator_id \in LoadIds, z \in Noise :
      \E listing \in Orderings({q \in DOMAIN fs : NameMatches(indicator_id, q)}) :
        /\ out' = [op |-> "load_indicator_data",
                   indicator_id |-> indicator_id,
                   result |-> load_indicator_data(fs, now, indicator_id, listing, z)]
        /\ UNCHANGED <<fs, now>>

\* load_data() of either program: load_all_indicators, cached for the views
LoadAllIndicators ==
    /\ out = NoOutput
    /\ \E z \in Noise, listing \in Orderings(DOMAIN fs) :
        /\ out' = [op |-> "load_all_indicators",
                   result |-> load_all_indicators(fs, now, listing, z)]
        /\ UNCHANGED <<fs, now>>

\* the main view of either program, drawn from what load_data() returned
RenderMainView ==
    /\ out.op = "load_all_indicators"
    /\ \E app \in Apps, time_period \in TimePeriods :
        /\ out' = [op |-> "main_view",
                   app |-> app,
                   time_period |-> time_period,
                   loader |-> LoaderSaid(out.result.all_indicators),
                   data |-> MainViewData(out.result.all_indicators,
                                         time_period),
                   cards |-> MainViewCards(out.result.all_indicators,
                                           time_period, now),
                   sources |-> DataSourcesTable(app, out.result.all_indicators)]
        /\ UNCHANGED <<fs, now>>

ForecastIds == {"wti_oil", "supply_chain", "cruspi", "explosives"}

LoadForecastData ==
    /\ out = NoOutput
    /\ \E indicator_id \in ForecastIds, z \in Noise :
      \E listing \in Orderings({q \in DOMAIN fs : NameMatches(indicator_id, q)}) :
        /\ out' = [op |-> "load_forecast_data",
                   indicator_id |-> indicator_id,
                   listing |-> listing,
                   z |-> z,
                   result |-> load_forecast_data(fs, now, indicator_id, listing, z)]
        /\ UNCHANGED <<fs, now>>

\* the changes, directions and ids the classification is called with
Changes == {NaN, PosInf, NegInf} \cup {Num(c) : c \in -MaxChange..MaxChange}
Directions == {"up", "down", "neutral"}

GetImpactIndicator ==
    /\ out = NoOutput
    /\ \E change \in Changes, preferred_direction \in Directions,
       use_absolute \in BOOLEAN, indicator_id \in IndicatorIds \cup {NoId} :
        /\ out' = [op |-> "get_impact_indicator",
                   change |-> change,
                   preferred_direction |-> preferred_direction,
                   use_absolute |-> use_absolute,
                   indicator_id |-> indicator_id,
                   result |-> get_impact_indicator(change, preferred_direction,
                                                   use_absolute, indicator_id)]
        /\ UNCHANGED <<fs, now>>

FormatChange ==
    /\ out = NoOutput
    /\ \E change \in Changes, preferred_direction \in Directions,
       use_absolute \in BOOLEAN :
        /\ out' = [op |-> "format_change",
                   change |-> change,
                   preferred_direction |-> preferred_direction,
                   use_absolute |-> use_absolute,
                   result |-> format_change(change, preferred_direction,
                                            use_absolute)]
        /\ UNCHANGED <<fs, now>>

Init ==
    /\ fs = EmptyDir
    /\ now \in NowSet
    /\ out = NoOutput

\* load_indicator_data over the data directory
NextLoad ==
    \/ PutFile(IndicatorPlacements)
    \/ RemoveFile
    \/ Tick
    \/ Return
    \/ LoadIndicatorData

SpecLoad == Init /\ [][NextLoad]_vars

\* load_all_indicators and the main view over the data directory
Next ==
    \/ PutFile(ViewPlacements)
    \/ RemoveFile
    \/ Tick
    \/ Return
    \/ LoadAllIndicators
    \/ RenderMainView

Spec == Init /\ [][Next]_vars

\* load_forecast_data over the data directory
NextForecast ==
    \/ PutFile(ForecastPlacements)
    \/ RemoveFile
    \/ Tick
    \/ Return
    \/ LoadForecastData

SpecForecast == Init /\ [][NextForecast]_vars

\* the impact classification over its arguments
NextImpact ==
    \/ GetImpactIndicator
    \/ FormatChange
    \/ Return

SpecImpact == Init /\ [][NextImpact]_vars

\* the longest historical table the view operations are called with; the
\* forecast tables are one row longer
MaxRows == 2

\* the sequences over S of length n or less
SeqsUpTo(S, n) == UNION {[1..k -> S] : k \in 0..n}

\* a table of monthly values, the first one dated the month after first
Table(values, first) ==
    [cols |-> <<"Date", "value">>, numeric |-> {"value"}, dateOk |-> TRUE,
     rows |-> [i \in 1..Len(values) |->
                  [Date |-> TS(first + i, 1, 0), value |-> values[i]]]]

\* a forecast table with confidence bounds one unit either side of the value
TableWithCi(values, first) ==
    [cols |-> <<"Date", "value", "lower_ci", "upper_ci">>,
     numeric |-> {"value", "lower_ci", "upper_ci"}, dateOk |-> TRUE,
     rows |-> [i \in 1..Len(values) |->
                  [Date |-> TS(first + i, 1, 0), value |-> values[i],
                   lower_ci |-> values[i] - 100, upper_ci |-> values[i] + 100]]]

\* the historical tables a chart is drawn of
ChartTables ==
    {Table(v, 20) : v \in SeqsUpTo({-50, 0, 7000, 7100}, MaxRows)}
    \cup {read_csv(DateOnlyCsv).df}

\* the forecast tables a chart is drawn with; the empty ones stand for None
ChartForecasts ==
    {Table(v, 23) : v \in SeqsUpTo({0, 7000, 7400}, MaxRows + 1)}
    \cup {TableWithCi(v, 23) : v \in SeqsUpTo({0, 7000, 7400}, MaxRows + 1)}
    \cup {read_csv(DateOnlyCsv).df}

CreateIndicatorChart ==
    /\ out = NoOutput
    /\ \E df \in ChartTables, forecast_df \in ChartForecasts,
          show_forecast \in BOOLEAN :
        /\ out' = [op |-> "create_indicator_chart",
                   df |-> df,
                   forecast_df |-> forecast_df,
                   show_forecast |-> show_forecast,
                   result |-> create_indicator_chart(df, forecast_df,
                                                     show_forecast)]
        /\ UNCHANGED <<fs, now>>

\* the chart over its arguments
NextChart ==
    \/ CreateIndicatorChart
    \/ Return

SpecChart == Init /\ [][NextChart]_vars

\* the tables create_correlation_matrix is called with: an empty one, one
\* with no value column, and tables with one row or several to the month,
\* in and out of the order of their dates
CorrTables ==
    {read_csv(HeaderOnlyCsv).df, read_csv(DateOnlyCsv).df, read_csv(GoodCsv).df,
     [read_csv(GoodCsv).df EXCEPT
         !.rows = << [Date |-> TS(22, 1, 0), value |-> 7000],
                     [Date |-> TS(22, 15, 0), value |-> 7050],
                     [Date |-> TS(23, 1, 0), value |-> 7100] >>],
     [read_csv(GoodCsv).df EXCEPT
         !.rows = << [Date |-> TS(23, 20, 0), value |-> 6900],
                     [Date |-> TS(22, 1, 0), value |-> 7000],
                     [Date |-> TS(23, 5, 1), value |-> 6800] >>]}

\* the dictionaries it is called with
CorrIds == {"wti_oil", "cruspi", "supply_chain"}
CorrInputs ==
    UNION {[ids -> {[df |-> df, data_source |-> "", using_sample_data |-> FALSE] :
                       df \in CorrTables}] : ids \in SUBSET CorrIds}

CreateCorrelationMatrix ==
    /\ out = NoOutput
    /\ \E all_indicators \in CorrInputs :
        /\ out' = [op |-> "create_correlation_matrix",
                   indicators |-> all_indicators,
                   indicators_after |-> AfterCorrelation(all_indicators),
                   merged_df |-> merged_df(all_indicators),
                   result |-> create_correlation_matrix(all_indicators)]
        /\ UNCHANGED <<fs, now>>

\* the correlation matrix over its argument
NextCorrelation ==
    \/ CreateCorrelationMatrix
    \/ Return

SpecCorrelation == Init /\ [][NextCorrelation]_vars

\* the files written before the setup script runs: under the data directory
\* and under an indicator_data tree beside it
SetupPlacements ==
    {<<"indicator_data/processed", "wti_oil", "">>, <<"processed", "wti_oil", "">>,
     <<"indicator_data/raw", "cruspi", "_direct">>, <<"raw", "cruspi", "_direct">>,
     <<"processed", "cruspi", "">>, <<"forecasts", "wti_oil", "_forecast">>,
     <<"processed", "wti_oil", ".cache">>}
    \X {GoodCsv, NegativeCsv}

\* a file is written or overwritten, while the directories hold few files
WriteFile ==
    /\ out = NoOutput
    /\ Cardinality(DOMAIN fs) <= MaxFiles
    /\ \E pl \in SetupPlacements :
        /\ pl[1] \in DOMAIN fs \/ Cardinality(DOMAIN fs) < MaxFiles
        /\ fs' = [q \in DOMAIN fs \cup {pl[1]} |->
                     IF q = pl[1] THEN Stamped(pl[2], now) ELSE fs[q]]
        /\ UNCHANGED <<now, out>>

\* an order in which the system may list the files of S
RECURSIVE Listed(_)
Listed(S) ==
    IF S = {} THEN <<>>
    ELSE <<CHOOSE x \in S : TRUE>> \o Listed(S \ {CHOOSE x \in S : TRUE})

Reversed(s) == [i \in 1..Len(s) |-> s[Len(s) + 1 - i]]

\* python setup_data_dir.py
RunSetup ==
    /\ out = NoOutput
    /\ \E z \in Noise, listing \in {Listed(DOMAIN fs), Reversed(Listed(DOMAIN fs))} :
      \E run \in {setup_data_dir(fs, listing, now, z)} :
        /\ fs' = run.fs
        /\ out' = [op |-> "setup_data_dir",
                   before |-> fs,
                   source_files |-> run.source_files,
                   copied_count |-> run.copied_count,
                   copied |-> run.copied_fs,
                   created |-> run.created]
        /\ UNCHANGED now

\* the setup script over the project directory
NextSetup ==
    \/ WriteFile
    \/ Tick
    \/ Return
    \/ RunSetup

SpecSetup == Init /\ [][NextSetup]_vars

\* the series a trend is asked of: short ones about the thresholds of 0.7%
\* either way, and two of seven values that moved before the last six only
TrendSeries ==
    SeqsUpTo({9929, 9930, 10000, 10070, 10071}, MaxRows)
    \cup {<<5000, 10000, 10000, 10000, 10000, 10000, 10000>>,
          <<20000, 10000, 10000, 10000, 10000, 10000, 10000>>}

\* the forecast values it is asked with
TrendForecastValues ==
    {<<>>, <<10000>>, <<10000, 10000>>, <<10000, 10140>>, <<10000, 10141>>,
     <<10000, 9860>>, <<10000, 9859>>, <<0, 100>>}

\* load_all_indicators calls determine_trend with a table and a forecast
\* table, an empty one where there is none
DetermineTrend ==
    /\ out = NoOutput
    /\ \E values \in TrendSeries,
          forecast_df \in {Table(v, 23) : v \in TrendForecastValues}
                              \cup {read_csv(DateOnlyCsv).df} :
        /\ out' = [op |-> "determine_trend",
                   df |-> Table(values, 10),
                   forecast_df |-> forecast_df,
                   result |-> determine_trend(Table(values, 10), forecast_df)]
        /\ UNCHANGED <<fs, now>>

GetTrendIndicator ==
    /\ out = NoOutput
    /\ \E last_values \in TrendSeries,
          forecast_values \in {[given |-> TRUE, values |-> v] : v \in TrendForecastValues}
                                  \cup {[given |-> FALSE, values |-> <<>>]} :
        /\ out' = [op |-> "get_trend_indicator",
                   last_values |-> last_values,
                   forecast_values |-> forecast_values,
                   result |-> get_trend_indicator(last_values, forecast_values)]
        /\ UNCHANGED <<fs, now>>

\* the two trend functions over their arguments
NextTrend ==
    \/ DetermineTrend
    \/ GetTrendIndicator
    \/ Return

SpecTrend == Init /\ [][NextTrend]_vars

\* the dates of the tables filter_time_period is asked to filter: a blank
\* cell, and dates 24 months and more, 12, 6 months and a day, 6 months and
\* nothing before the latest one
FilterDates ==
    {NaT, TS(5, 1, 0), TS(6, 15, 0), TS(18, 15, 0), TS(24, 14, 0),
     TS(24, 15, 0), TS(30, 15, 0)}

\* a table with the given dates, in the given order
DatedTable(dates) ==
    [cols |-> <<"Date", "value">>, numeric |-> {"value"}, dateOk |-> TRUE,
     rows |-> [i \in 1..Len(dates) |-> [Date |-> dates[i], value |-> 100 * i]]]

\* a table with no Date column
UndatedTable ==
    [cols |-> <<"value">>, numeric |-> {"value"}, dateOk |-> TRUE,
     rows |-> <<[value |-> 100], [value |-> 200]>>]

\* the tables filter_time_period is called with; the empty sequence of dates
\* makes the empty table
FilterTables ==
    {DatedTable(dates) : dates \in SeqsUpTo(FilterDates, MaxRows + 1)}
    \cup {UndatedTable, None}

\* filter_time_period(df, time_period)
FilterTimePeriod ==
    /\ out = NoOutput
    /\ \E df \in FilterTables, time_period \in TimePeriods \cup {"Year to Date"} :
        /\ out' = [op |-> "filter_time_period",
                   df |-> df,
                   time_period |-> time_period,
                   result |-> filter_time_period(df, time_period)]
    /\ UNCHANGED <<fs, now>>

\* filter_time_period over tables in and out of date order
NextFilter ==
    \/ FilterTimePeriod
    \/ Return

SpecFilter == Init /\ [][NextFilter]_vars

\* the dates get_valid_update_date is asked about: before, at, between and
\* after the moments of NowSet
UpdateDates ==
    {TS(23, 1, 0), TS(24, 1, 0), TS(24, 1, 1), TS(24, 10, 0), TS(24, 15, 1),
     TS(24, 16, 0), TS(30, 1, 0)}

\* what it is handed: datetimes, NaT among them, texts that read as those
\* dates, a text that reads as no date, and None
UpdateDateValues ==
    {Datetime(d) : d \in UpdateDates \cup {NaT}}
    \cup {DateString(d) : d \in UpdateDates}
    \cup {NotADate, None}

\* the files of the tables whose latest date load_all_indicators clamps:
\* the CRUspi direct file keeps its future rows, the processed file does not
UpdatePlacements ==
    ({<<"raw", "cruspi", "_direct">>} \X {GoodCsv, MixedCsv, FutureCsv})
    \cup
    ({<<"processed", "wti_oil", "">>} \X {GoodCsv, FutureCsv})

\* get_valid_update_date(date_value) of indicator_card.py
GetValidUpdateDate ==
    /\ out = NoOutput
    /\ \E date_value \in UpdateDateValues :
        /\ out' = [op |-> "get_valid_update_date",
                   module |-> "indicator_card",
                   date_value |-> date_value,
                   result |-> get_valid_update_date(date_value, now)]
    /\ UNCHANGED <<fs, now>>

\* get_valid_update_date(date_value) of data_loader.py
DataLoaderGetValidUpdateDate ==
    /\ out = NoOutput
    /\ \E date_value \in UpdateDateValues :
        /\ out' = [op |-> "get_valid_update_date",
                   module |-> "data_loader",
                   date_value |-> date_value,
                   result |-> data_loader_get_valid_update_date(date_value, now)]
    /\ UNCHANGED <<fs, now>>

\* both copies of get_valid_update_date, load_all_indicators and the cards
\* of the main view
NextUpdateDate ==
    \/ PutFile(UpdatePlacements)
    \/ RemoveFile
    \/ Tick
    \/ Return
    \/ LoadAllIndicators
    \/ RenderMainView
    \/ GetValidUpdateDate
    \/ DataLoaderGetValidUpdateDate

SpecUpdateDate == Init /\ [][NextUpdateDate]_vars

\* a forecast of a single month
OneRowForecastCsv ==
    Csv(<<"Date", "value">>, {"value"}, TRUE,
        << [Date |-> TS(26, 1, 0), value |-> 7250] >>)

\* the files written before a card with a forecast is drawn
CardPlacements ==
    ({<<"forecasts", "supply_chain", "_forecast">>}
        \X {GoodForecastCsv, OneRowForecastCsv, PastForecastCsv})
    \cup
    ({<<"processed", "supply_chain", "">>} \X {GoodCsv, NegativeCsv})

\* the indicators of the main view that have both a card and a commentary
CommentedIds == {"supply_chain", "empire_prices_paid"}

\* the first row of the main view: create_indicator_card with the forecast
\* toggle and the commentary, drawn from what load_data() returned
RenderCardWithForecast ==
    /\ out.op = "load_all_indicators"
    /\ \E indicator_id \in CommentedIds \cap DOMAIN out.result.all_indicators,
          time_period \in TimePeriods, show_forecast \in BOOLEAN,
          z_chart \in Noise, z_note \in Noise,
          listing \in Orderings(DOMAIN fs) :
       \E df \in {filter_time_period(out.result.all_indicators[indicator_id].df,
                                     time_period)},
          chart_forecast \in {load_forecast_data(fs, now, indicator_id, listing,
                                                 z_chart).df},
          note_forecast \in {load_forecast_data(fs, now, indicator_id, listing,
                                                z_note).df} :
        /\ ~IsEmpty(df)
        /\ out' = [op |-> "create_indicator_card",
                   indicator_id |-> indicator_id,
                   show_forecast |-> show_forecast,
                   df |-> df,
                   card |-> CardWithForecast(indicator_id, df, chart_forecast,
                                             note_forecast, out.result.forecasts,
                                             show_forecast)]
    /\ UNCHANGED <<fs, now>>

\* the cards with forecasts over the data directory
NextCard ==
    \/ PutFile(CardPlacements)
    \/ RemoveFile
    \/ Tick
    \/ Return
    \/ LoadAllIndicators
    \/ RenderCardWithForecast

SpecCard == Init /\ [][NextCard]_vars

\* two past months, the later one first
DescendingCsv ==
    Csv(<<"Date", "value">>, {"value"}, TRUE,
        << [Date |-> TS(23, 1, 0), value |-> 7100],
           [Date |-> TS(22, 1, 0), value |-> 7000] >>)

\* three past months in no order, the latest one in the middle
UnsortedCsv ==
    Csv(<<"Date", "value">>, {"value"}, TRUE,
        << [Date |-> TS(22, 1, 0), value |-> 7000],
           [Date |-> TS(23, 1, 0), value |-> 7100],
           [Date |-> TS(21, 1, 0), value |-> 6900] >>)

\* the files written before the cards are drawn, in every order of rows
OrderPlacements ==
    ({<<"processed", "wti_oil", "">>} \X {GoodCsv, DescendingCsv, UnsortedCsv})
    \cup
    ({<<"raw", "cruspi", "_direct">>} \X {GoodCsv, DescendingCsv})
    \cup
    ({<<"processed", "supply_chain", "">>} \X {ThirteenMonthsCsv, NegativeCsv})

\* load_all_indicators and the main view over files in every order of rows
NextOrder ==
    \/ PutFile(OrderPlacements)
    \/ RemoveFile
    \/ Tick
    \/ Return
    \/ LoadAllIndicators
    \/ RenderMainView

SpecOrder == Init /\ [][NextOrder]_vars

(***************************************************************************)
(* Properties                                                              *)
(***************************************************************************)
\* C1: for every state of the data directory load_all_indicators returns an
\* all_indicators entry with a table that is not empty for each of the 16
\* indicators of its list; none is left out.
C1_EveryIndicatorServed ==
    out.op = "load_all_indicators" =>
        /\ DOMAIN out.result.all_indicators = IndicatorIds
        /\ \A id \in DOMAIN out.result.all_indicators :
              ~IsEmpty(out.result.all_indicators[id].df)

\* the synthesized series is what the call returned
ReturnedSample ==
    /\ out.op = "load_indicator_data"
    /\ out.result.data_source.text = "Sample data"

\* the five exact candidate paths
ExactPaths(indicator_id) ==
    {possible_files(indicator_id)[i] : i \in 1..Len(possible_files(indicator_id))}

\* the existing files the two patterns match
PatternMatches(fsys, indicator_id) ==
    {q \in Existing(fsys) : NameMatches(indicator_id, q)}

\* a file that is not empty and has resolvable Date and value columns
NonEmptyResolvable(f) ==
    /\ f.exists /\ f.parses /\ f.rows # <<>>
    /\ HasCol(read_csv(f).df, "Date") \/ date_cols(read_csv(f).df) # <<>>
    /\ HasCol(read_csv(f).df, "value") \/ value_cols(read_csv(f).df) # <<>>

Tried(fsys, indicator_id) ==
    (IF indicator_id = "cruspi" THEN {DirectPath} ELSE {})
    \cup ExactPaths(indicator_id)
    \cup (IF AnyExists(possible_files(indicator_id), fsys) THEN {}
          ELSE PatternMatches(fsys, indicator_id))

\* a file either branch loads: it parses, has a Date column of dates that
\* parse and a numeric value column, its source column if any is text, and
\* a row of it is not dated after the clock
Usable(f, t) ==
    /\ f.exists /\ f.parses
    /\ HasCol(read_csv(f).df, "Date") /\ f.dateOk
    /\ HasCol(read_csv(f).df, "value") /\ "value" \in f.numeric
    /\ "source" \notin f.numeric
    /\ \E i \in 1..Len(f.rows) : f.rows[i]["Date"] <= t

C3_DateAndValueColumns ==
    out.op = "load_indicator_data" =>
        /\ HasCol(out.result.df, "Date")
        /\ HasCol(out.result.df, "value")

\* what the loader said makes the data of an indicator sample data: the
\* flag, the label, or a cell of the source column
SaidSample(said) ==
    \/ said.using_sample_data
    \/ LabelMentionsSample(said.data_source)
    \/ \E cell \in said.sources : MentionsSample(cell)

\* C4: in the main view an indicator whose data is sample data is never
\* shown unmarked: its card carries the sample data warning and the Data
\* Sources table says 'Sample Data' of it.
C4_SampleDataIsMarked ==
    out.op = "main_view" =>
        \A id \in DOMAIN out.loader :
            SaidSample(out.loader[id]) =>
                /\ id \in DOMAIN out.sources => out.sources[id] = "Sample Data"
                /\ id \in DOMAIN out.cards /\ out.cards[id].rendered
                      => out.cards[id].sample_warning

\* the threshold of a call
ThresholdOf(use_absolute) ==
    IF use_absolute THEN absolute_significance_threshold
    ELSE significance_threshold

\* C5: get_impact_indicator says 'neutral' of every change that is not
\* missing and within the significance threshold, whatever the preferred
\* direction and the indicator.
C5_NeutralWithinThreshold ==
    out.op = "get_impact_indicator" /\ out.change.k = "num"
       /\ ~Exceeds(out.change, ThresholdOf(out.use_absolute))
    => out.result.impact = "neutral"

\* C6: with preferred direction 'down' no increase is 'positive' and no
\* decrease 'negative'; with 'up' and an indicator without override no
\* increase is 'negative' and no decrease 'positive'.
C6_DirectionIsRespected ==
    out.op = "get_impact_indicator" =>
        /\ out.preferred_direction = "down" =>
              /\ ~(IsIncrease(out.change) /\ out.result.impact = "positive")
              /\ ~(IsDecrease(out.change) /\ out.result.impact = "negative")
        /\ out.preferred_direction = "up" /\ out.indicator_id \notin OverrideIds =>
              /\ ~(IsIncrease(out.change) /\ out.result.impact = "negative")
              /\ ~(IsDecrease(out.change) /\ out.result.impact = "positive")

\* an indicator without override whose increase is good went up past the
\* threshold and was classified
C6_UpIncreaseClassified ==
    /\ out.op = "get_impact_indicator"
    /\ out.preferred_direction = "up" /\ out.indicator_id \notin OverrideIds
    /\ IsIncrease(out.change)
    /\ Exceeds(out.change, ThresholdOf(out.use_absolute))
    /\ out.result.impact = "positive"

\* C7 as stated: with preferred direction 'neutral' and no override an
\* increase of any size has impact 'neutral' and style 'neutral-change'.
C7_AsStated ==
    /\ out.op = "get_impact_indicator" /\ out.preferred_direction = "neutral"
          /\ out.indicator_id \notin OverrideIds /\ IsIncrease(out.change)
       => out.result.impact = "neutral"
    /\ out.op = "format_change" /\ out.preferred_direction = "neutral"
          /\ IsIncrease(out.change)
       => out.result.style = "neutral-change"

\* C7: with preferred direction 'neutral' format_change styles every
\* increase 'neutral-change'; get_impact_indicator, for an indicator without
\* override, says 'neutral' of an increase within the significance threshold
\* and 'negative' of one beyond it.
C7_NeutralDirection ==
    /\ out.op = "get_impact_indicator" /\ out.preferred_direction = "neutral"
          /\ out.indicator_id \notin OverrideIds /\ IsIncrease(out.change)
       => out.result.impact =
             IF Exceeds(out.change, ThresholdOf(out.use_absolute))
             THEN "negative" ELSE "neutral"
    /\ out.op = "format_change" /\ out.preferred_direction = "neutral"
          /\ IsIncrease(out.change)
       => out.result.style = "neutral-change"

\* a significant increase of a neutral indicator was classified 'negative'
C7_NeutralIncreaseNegative ==
    /\ out.op = "get_impact_indicator" /\ out.preferred_direction = "neutral"
    /\ out.indicator_id \notin OverrideIds /\ IsIncrease(out.change)
    /\ out.result.impact = "negative"

\* the forecast was generated, from actual data or as a pure sample
Generated ==
    /\ out.op = "load_forecast_data"
    /\ out.result.data_source.text \in
           {"Generated forecast based on actual data", "Sample forecast data"}

\* C8: every forecast load_forecast_data generates has exactly 6 rows, dated
\* on day 1 of six consecutive months that begin with the current month.
C8_SixMonthsFromNow ==
    Generated =>
        /\ Len(out.result.df.rows) = 6
        /\ \A i \in 1..Len(out.result.df.rows) :
              /\ DayOf(out.result.df.rows[i]["Date"]) = 1
              /\ MonthOf(out.result.df.rows[i]["Date"]) = MonthOf(now) + i - 1

\* a forecast was generated from actual data in the middle of a month
C8_GeneratedMidMonth ==
    /\ Generated
    /\ out.result.data_source.text = "Generated forecast based on actual data"
    /\ DayOf(now) = 15

\* the width of the interval of a row relative to its value, in millionths;
\* the bounds are exact multiples of the value
RelativeWidth(row) == (row["upper_ci"] - row["lower_ci"]) \div row["value"]

\* C9: in every row of a generated forecast lower_ci <= value <= upper_ci,
\* and the width of the interval relative to the value grows strictly from
\* each row to the next, also when the last actual value is zero or
\* negative.
C9_IntervalAroundValue ==
    Generated =>
        /\ \A i \in 1..Len(out.result.df.rows) :
              /\ out.result.df.rows[i]["lower_ci"]
                    <= Scaled(out.result.df.rows[i]["value"])
              /\ Scaled(out.result.df.rows[i]["value"])
                    <= out.result.df.rows[i]["upper_ci"]
        /\ \A i \in 1..(Len(out.result.df.rows) - 1) :
              /\ out.result.df.rows[i]["value"] # 0
              /\ out.result.df.rows[i + 1]["value"] # 0
              /\ RelativeWidth(out.result.df.rows[i])
                    < RelativeWidth(out.result.df.rows[i + 1])

\* a forecast file that the loop over the forecast files returns: it parses,
\* has Date and value columns, its dates parse, its source column if any is
\* text, and a row of it is not before the start of the current month
UsableForecast(f, t) ==
    /\ f.exists /\ f.parses
    /\ HasCol(read_csv(f).df, "Date") /\ f.dateOk
    /\ HasCol(read_csv(f).df, "value")
    /\ "source" \notin f.numeric
    /\ \E i \in 1..Len(f.rows) : f.rows[i]["Date"] >= CurrentMonthStart(t)

\* the forecast files a call tries
TriedForecasts(fsys, indicator_id, listing) ==
    {ForecastSearchList(fsys, indicator_id, listing)[i] :
        i \in 1..Len(ForecastSearchList(fsys, indicator_id, listing))}

\* the table load_forecast_data gets from load_indicator_data
ActualData ==
    load_indicator_data(fs, now, out.indicator_id, out.listing, out.z).df

\* C10: load_forecast_data always returns a forecast table that is not
\* empty and has Date and value columns.  A forecast is generated only when
\* no forecast file it tries is usable, it is a pure sample only when the
\* indicator's table is empty or cannot be projected, and every generated
\* forecast comes with using_sample_data true.
C10_ForecastChain ==
    out.op = "load_forecast_data" =>
        /\ out.result.found
        /\ ~IsEmpty(out.result.df)
        /\ HasCol(out.result.df, "Date") /\ HasCol(out.result.df, "value")
        /\ \/ Generated
           \/ /\ out.result.data_source.text = "Forecast from file"
              /\ \E q \in TriedForecasts(fs, out.indicator_id, out.listing) :
                    /\ Basename(q) = out.result.data_source.file
                    /\ UsableForecast(FileAt(fs, q), now)
        /\ Generated =>
              /\ out.result.using_sample_data
              /\ \A q \in TriedForecasts(fs, out.indicator_id, out.listing) :
                    ~UsableForecast(FileAt(fs, q), now)
        /\ out.result.data_source.text = "Sample forecast data" =>
              IsEmpty(ActualData) \/ ForecastFromActualRaises(ActualData)
        /\ out.result.data_source.text = "Generated forecast based on actual data" =>
              ~IsEmpty(ActualData)

\* a pure sample forecast was returned although a forecast file exists
C10_PureSampleDespiteFile ==
    /\ out.op = "load_forecast_data"
    /\ out.result.data_source.text = "Sample forecast data"
    /\ \E q \in TriedForecasts(fs, out.indicator_id, out.listing) :
          FileAt(fs, q).exists


\* a call of create_indicator_chart that drew a forecast trace
ChartWithForecast ==
    /\ out.op = "create_indicator_chart"
    /\ out.result.figure
    /\ out.show_forecast
    /\ ~IsEmpty(out.forecast_df)
    /\ HasCol(out.forecast_df, "Date")
    /\ HasCol(out.forecast_df, "value")

Between(x, a, b) == (a <= x /\ x <= b) \/ (b <= x /\ x <= a)

\* C11: with a forecast that is not empty, the forecast trace of
\* create_indicator_chart starts at the last historical point (its date and
\* its value), its next point is 0.7 * the last historical value + 0.3 * the
\* first forecast value, which lies between the two, and every later
\* forecast value is plotted as it is.
C11_ForecastTrace ==
    ChartWithForecast =>
        LET hist == out.df.rows
            fc == out.forecast_df.rows
            last == hist[Len(hist)]
            trace == out.result.forecast
        IN  /\ trace.drawn
            /\ Len(trace.x) = Len(fc) + 1 /\ Len(trace.y) = Len(fc) + 1
            /\ trace.x[1] = last["Date"]
            /\ trace.y[1] = Plotted(last["value"])
            /\ trace.x[2] = fc[1]["Date"]
            /\ 10 * trace.y[2]
                   = 7 * Plotted(last["value"]) + 3 * Plotted(fc[1]["value"])
            /\ Between(trace.y[2], Plotted(last["value"]), Plotted(fc[1]["value"]))
            /\ \A i \in 2..Len(fc) :
                /\ trace.x[i + 1] = fc[i]["Date"]
                /\ trace.y[i + 1] = Plotted(fc[i]["value"])

\* a forecast of three rows drawn after a historical value that differs from
\* the first forecast value
C11_ThreeRowForecastDrawn ==
    /\ ChartWithForecast
    /\ Len(out.forecast_df.rows) = 3
    /\ out.df.rows[Len(out.df.rows)]["value"] = 7100
    /\ out.forecast_df.rows[1]["value"] = 7400
    /\ out.forecast_df.rows[3]["value"] = 7000
    /\ out.result.forecast.y = <<71000, 71900, Plotted(out.forecast_df.rows[2]["value"]), 70000>>

\* the indicators of a dictionary that have a table that is not empty, with
\* Date and value columns
WithDateAndValue(all_indicators) ==
    {id \in DOMAIN all_indicators :
        /\ Len(all_indicators[id].df.rows) > 0
        /\ HasCol(all_indicators[id].df, "Date")
        /\ HasCol(all_indicators[id].df, "value")}

\* the value of the last row of month m in the table, and no other
IsLastOfMonth(df, m, v) ==
    \E i \in 1..Len(df.rows) :
        /\ MonthOf(df.rows[i]["Date"]) = m
        /\ df.rows[i]["value"] = v
        /\ \A j \in 1..Len(df.rows) :
              MonthOf(df.rows[j]["Date"]) = m => j <= i

SampleContent(f) ==
    /\ \E i \in 1..Len(f.cols) : f.cols[i] = "source"
    /\ \E i \in 1..Len(f.rows) : MentionsSample(f.rows[i]["source"])

\* C13: the setup script creates sample data files only if it found no data
\* file, and no run of it, a second run over a populated data directory
\* included, replaces a file under data/processed or data/forecasts that was
\* not sample data with generated sample content.
C13_SampleOnlyWhenNothingFound ==
    out.op = "setup_data_dir" =>
        /\ out.created => out.source_files = <<>>
        /\ \A p \in DOMAIN out.before \cap DOMAIN fs :
              (p[1] \in {"processed", "forecasts"} /\ ~SampleContent(out.before[p]))
                  => ~SampleContent(fs[p])

\* the exact candidate paths in the order the claim gives
CandidateOrder(indicator_id) ==
    << <<"processed", indicator_id, "_monthly">>,
       <<"processed", indicator_id, "">>,
       <<"raw", indicator_id, "">>,
       <<"raw", indicator_id, "_sample">>,
       <<"base", indicator_id, "">> >>

\* the Date and value cells of the rows of a table
DateAndValue(rows) ==
    [i \in 1..Len(rows) |-> [Date |-> rows[i]["Date"], value |-> rows[i]["value"]]]

\* the call returned the file at path, as far as the label and the data say
ReturnedFile(path, rows) ==
    /\ out.result.data_source = FileLabel("Data from file", path)
    /\ HasCol(out.result.df, "Date") /\ HasCol(out.result.df, "value")
    /\ DateAndValue(out.result.df.rows) = DateAndValue(rows)

\* C14 as stated: the data of the first exact candidate that exists, is not
\* empty and has resolvable Date and value columns is returned.
C14_AsStated ==
    out.op = "load_indicator_data" =>
        LET cands == CandidateOrder(out.indicator_id)
            good == {i \in 1..5 : NonEmptyResolvable(FileAt(fs, cands[i]))}
        IN  good # {} =>
                LET first == CHOOSE i \in good : \A j \in good : i <= j
                IN  ReturnedFile(cands[first],
                        ResolveValue(ResolveDate(
                            read_csv(FileAt(fs, cands[first])).df)).rows)

\* the rows of a candidate file, its columns resolved, that are not dated
\* after the clock
KeptRows(f, t) ==
    SelectSeq(ResolveValue(ResolveDate(read_csv(f).df)).rows,
              LAMBDA r : r["Date"] <= t)

\* a candidate the loop returns: not empty, with resolvable Date and value
\* columns, dates that parse, a source column that is not numeric, values
\* that are numbers where a change has to be computed of them, and a row
\* that is not dated after the clock or a last_updated_date column
Loads(f, t) ==
    /\ NonEmptyResolvable(f)
    /\ f.dateOk
    /\ "source" \notin f.numeric
    /\ (Len(KeptRows(f, t)) > 1 /\ ~HasCol(read_csv(f).df, "monthly_change"))
          => "value" \in ResolveValue(ResolveDate(read_csv(f).df)).numeric
    /\ (Len(KeptRows(f, t)) >= 12 /\ ~HasCol(read_csv(f).df, "yoy_change"))
          => "value" \in ResolveValue(ResolveDate(read_csv(f).df)).numeric
    /\ KeptRows(f, t) # <<>> \/ HasCol(read_csv(f).df, "last_updated_date")

\* C14: unless the CRUspi direct file was returned, load_indicator_data
\* returns the first exact candidate, in the order processed/<id>_monthly.csv,
\* processed/<id>.csv, raw/<id>.csv, raw/<id>_sample.csv, <base>/<id>.csv,
\* that loads, with the rows that are not dated after the clock; a candidate
\* that does not load is skipped, and when some candidate exists and none
\* loads the sample series is returned.
C14_FirstLoadableCandidate ==
    (out.op = "load_indicator_data"
     /\ out.result.data_source.text # "Data from direct file") =>
        LET cands == CandidateOrder(out.indicator_id)
            good == {i \in 1..5 : Loads(FileAt(fs, cands[i]), now)}
        IN  IF good # {}
            THEN LET first == CHOOSE i \in good : \A j \in good : i <= j
                 IN  ReturnedFile(cands[first], KeptRows(FileAt(fs, cands[first]), now))
            ELSE (\E i \in 1..5 : FileAt(fs, cands[i]).exists)
                     => out.result.data_source.text = "Sample data"

\* the first candidate exists, is not empty and has both columns, and is
\* skipped for the second
C14_SecondCandidateReturned ==
    /\ out.op = "load_indicator_data"
    /\ out.indicator_id = "wti_oil"
    /\ NonEmptyResolvable(FileAt(fs, <<"processed", "wti_oil", "_monthly">>))
    /\ ~Loads(FileAt(fs, <<"processed", "wti_oil", "_monthly">>), now)
    /\ Loads(FileAt(fs, <<"processed", "wti_oil", "">>), now)
    /\ ReturnedFile(<<"processed", "wti_oil", "">>,
                    FileAt(fs, <<"processed", "wti_oil", "">>).rows)

\* the direct file is readable: it parses as CSV, is not empty, has a Date
\* or date column whose dates parse, and each change that has to be computed
\* of its values can be
DirectReadable(f) ==
    /\ f.exists /\ f.parses /\ f.rows # <<>>
    /\ HasCol(read_csv(f).df, "Date") \/ HasCol(read_csv(f).df, "date")
    /\ f.dateOk
    /\ (Len(f.rows) > 1 /\ ~HasCol(read_csv(f).df, "monthly_change")
           /\ HasCol(ResolveValue(read_csv(f).df), "value"))
          => "value" \in ResolveValue(read_csv(f).df).numeric

\* C15: for 'cruspi', when raw/cruspi_direct.csv exists, is readable, is not
\* empty and has a Date or date column, load_indicator_data returns the rows
\* of that file, whatever other candidate files exist, labelled as the
\* direct file and with using_sample_data false; when the direct file is
\* missing, empty or fails to load, the result is that of the regular search.
C15_DirectFilePreferred ==
    (out.op = "load_indicator_data" /\ out.indicator_id = "cruspi") =>
        IF DirectReadable(FileAt(fs, DirectPath))
        THEN /\ out.result.data_source
                  = FileLabel("Data from direct file", DirectPath)
             /\ out.result.using_sample_data = FALSE
             /\ Len(out.result.df.rows) = Len(FileAt(fs, DirectPath).rows)
             /\ \A i \in 1..Len(out.result.df.rows) :
                   \A c \in DOMAIN FileAt(fs, DirectPath).rows[i] :
                       out.result.df.rows[i][c] = FileAt(fs, DirectPath).rows[i][c]
        ELSE \E z \in Noise,
                listing \in Orderings({q \in DOMAIN fs : NameMatches("cruspi", q)}) :
                out.result =
                    OrElse(TryFiles(SearchList(fs, "cruspi", listing), fs, "cruspi", now),
                           Loaded(SampleDataMemo["cruspi"][MonthOf(now)][z],
                                  GeneratedLabel("Sample data", "cruspi"), TRUE))

\* the direct file is returned as not sample data although its source column
\* says 'sample' and processed/cruspi.csv exists
C15_DirectBeforeProcessed ==
    /\ out.op = "load_indicator_data" /\ out.indicator_id = "cruspi"
    /\ FileAt(fs, DirectPath) = SampleSourceCsv
    /\ FileAt(fs, <<"processed", "cruspi", "">>) = GoodCsv
    /\ out.result.data_source.text = "Data from direct file"
    /\ ~out.result.using_sample_data

\* the rows of a table dated in the month of the clock or a later month
FromCurrentMonthOn(rows, t) ==
    SelectSeq(rows, LAMBDA r : MonthOf(r["Date"]) >= MonthOf(t))

\* C16: a forecast that load_forecast_data reads from a file holds every row
\* of the file dated in the current calendar month or a later month and no
\* row dated in an earlier month, whatever the time of day and the day of
\* the month of the call.
C16_CurrentMonthKept ==
    (out.op = "load_forecast_data"
     /\ out.result.data_source.text = "Forecast from file") =>
        \E q \in Existing(fs) :
            /\ out.result.data_source = FileLabel("Forecast from file", q)
            /\ HasCol(read_csv(fs[q]).df, "Date")
            /\ HasCol(read_csv(fs[q]).df, "value")
            /\ DateAndValue(out.result.df.rows)
                 = DateAndValue(FromCurrentMonthOn(fs[q].rows, now))

\* a change column of a table read from a file: no file of the catalogue
\* brings one, so the call added it
AddedColumn(c) ==
    /\ out.op = "load_indicator_data"
    /\ out.result.data_source.text # "Sample data"
    /\ HasCol(out.result.df, c)

\* C17: when load_indicator_data adds a yoy_change column, the yoy_change of
\* the latest row is a number, the percentage change against the value 12
\* rows earlier; when it adds a monthly_change column, that of the latest
\* row is the percentage change against the row before.
C17_LatestChangeDefined ==
    LET rows == out.result.df.rows
        n == Len(rows)
    IN  /\ AddedColumn("yoy_change") =>
            /\ rows[n]["yoy_change"].k = "num"
            /\ rows[n]["yoy_change"] = PctOf(rows[n]["value"], rows[n - 12]["value"])
        /\ AddedColumn("monthly_change") =>
            /\ rows[n]["monthly_change"].k = "num"
            /\ rows[n]["monthly_change"] = PctOf(rows[n]["value"], rows[n - 1]["value"])

\* the three label and class pairs
IncreasingPair == [trend_text |-> "Increasing", trend_class |-> "trend-up"]
DecreasingPair == [trend_text |-> "Decreasing", trend_class |-> "trend-down"]
StablePair == [trend_text |-> "Stable", trend_class |-> "trend-stable"]

\* the sum of the row-to-row percentage changes of values, none of whose
\* values is zero
RECURSIVE SumOfChanges(_)
SumOfChanges(values) ==
    IF Len(values) < 2 THEN 0
    ELSE PctOf(values[2], values[1]).v + SumOfChanges(Tail(values))

\* the pair that goes with a combined trend, given as the sum of the
\* n row-to-row changes of the historical values and, where a forecast
\* counts, the forecast values: without a forecast the combined trend is
\* sum / n, with one it is (sum / n + change) / 2, the change being that
\* from the first forecast value to the last, 0 for fewer than two values
PairOf(sum, n, counts, fvalues) ==
    LET change == IF Len(fvalues) >= 2 THEN PctOf(fvalues[Len(fvalues)], fvalues[1])
                  ELSE Num(0)
    IN  IF ~counts
        THEN (IF sum > 70 * n THEN IncreasingPair
              ELSE IF sum < -70 * n THEN DecreasingPair ELSE StablePair)
        ELSE IF change.k = "nan" THEN StablePair
        ELSE IF change.k = "inf"
        THEN (IF change.v > 0 THEN IncreasingPair ELSE DecreasingPair)
        ELSE IF sum + change.v * n > 140 * n THEN IncreasingPair
        ELSE IF sum + change.v * n < -140 * n THEN DecreasingPair
        ELSE StablePair

\* the last min(6, n) of the values
LastSix(values) ==
    SubSeq(values, IF Len(values) > 6 THEN Len(values) - 5 ELSE 1, Len(values))

\* the arguments and the result of the call at hand of either function
TrendCall ==
    IF out.op = "determine_trend"
    THEN [values |-> IF HasCol(out.df, "value") THEN Column(out.df, "value") ELSE <<>>,
          fvalues |-> IF HasCol(out.forecast_df, "value")
                      THEN Column(out.forecast_df, "value") ELSE <<>>,
          given |-> HasCol(out.forecast_df, "value") /\ out.forecast_df.rows # <<>>,
          counts |-> HasCol(out.forecast_df, "value") /\ out.forecast_df.rows # <<>>,
          all |-> FALSE,
          pair |-> [trend_text |-> out.result.trend_text,
                    trend_class |-> out.result.trend_class]]
    ELSE [values |-> out.last_values,
          fvalues |-> out.forecast_values.values,
          given |-> out.forecast_values.given /\ out.forecast_values.values # <<>>,
          counts |-> out.forecast_values.given,
          all |-> TRUE,
          pair |-> out.result]

\* C18 as stated: both functions return Increasing iff the combined trend is
\* above 0.7, Decreasing iff it is below -0.7 and Stable otherwise, the
\* combined trend being the mean change of the last min(6, n) values,
\* averaged with the forecast change when a forecast is given.
C18_AsStated ==
    out.op \in {"determine_trend", "get_trend_indicator"} =>
        LET call == TrendCall
        IN  IF Len(call.values) < 2 THEN call.pair = StablePair
            ELSE call.pair = PairOf(SumOfChanges(LastSix(call.values)),
                                    Len(LastSix(call.values)) - 1,
                                    call.given, call.fvalues)

\* C18: both functions return one of the three pairs: Stable for fewer than
\* two values; otherwise Increasing iff the combined trend is strictly above
\* 0.7, Decreasing iff it is strictly below -0.7, Stable otherwise.  The
\* combined trend is the mean row-to-row percentage change, of the last
\* min(6, n) values in determine_trend and of all the values passed in
\* get_trend_indicator, averaged with the first-to-last forecast change
\* (0 for fewer than two forecast values) when a forecast counts: a forecast
\* table that is not empty in determine_trend, any forecast argument but
\* None in get_trend_indicator.
C18_TrendThresholds ==
    out.op \in {"determine_trend", "get_trend_indicator"} =>
        LET call == TrendCall
            used == IF call.all THEN call.values ELSE LastSix(call.values)
        IN  IF Len(call.values) < 2 THEN call.pair = StablePair
            ELSE call.pair = PairOf(SumOfChanges(used), Len(used) - 1,
                                    call.counts, call.fvalues)

\* a rise of exactly 0.7% without a forecast is Stable
C18_StableAtThreshold ==
    /\ out.op = "determine_trend"
    /\ Column(out.df, "value") = <<10000, 10070>>
    /\ out.forecast_df.rows = <<>>
    /\ out.result.trend_text = "Stable"

\* the months of a 'Last N Months' period, 0 for any other period
MonthsOf(time_period) ==
    IF time_period = "Last 6 Months" THEN 6
    ELSE IF time_period = "Last 12 Months" THEN 12
    ELSE IF time_period = "Last 24 Months" THEN 24
    ELSE 0

\* C19: for a table with a Date column, filter_time_period with 'Last N
\* Months' returns exactly the rows whose Date lies in the closed interval
\* from the latest Date of the table less N months to the latest Date, the
\* rows with the latest Date among them; any other period returns every row;
\* a None, empty or Date-less table is returned as it is.
C19_AsStated ==
    out.op = "filter_time_period" =>
        IF out.df = None THEN out.result = out.df
        ELSE IF IsEmpty(out.df) \/ ~HasCol(out.df, "Date") THEN out.result = out.df
        ELSE LET rows == out.df.rows
                 given == {rows[i].Date : i \in 1..Len(rows)} \ {NaT}
                 latest == CHOOSE d \in given : \A e \in given : e <= d
                 n == MonthsOf(out.time_period)
             IN  IF n = 0 THEN out.result = out.df
                 ELSE given # {} =>
                      /\ out.result.cols = out.df.cols
                      /\ out.result.rows =
                            SelectSeq(rows, LAMBDA row :
                                /\ row.Date # NaT
                                /\ row.Date >= latest - 64 * n
                                /\ row.Date <= latest)
                      /\ \A i \in 1..Len(rows) :
                            rows[i].Date = latest =>
                                \E j \in 1..Len(out.result.rows) :
                                    out.result.rows[j] = rows[i]

\* C19 without its clause for the other periods: the 'Last N Months' rows
\* are those of the closed interval, and a None, empty or Date-less table is
\* returned as it is
C19_LastMonthsInterval ==
    out.op = "filter_time_period" /\ out.time_period \in
        {"Last 6 Months", "Last 12 Months", "Last 24 Months"} => C19_AsStated

\* a printed date is not after the day of the clock
NotAfterToday(printed) ==
    \/ printed.month < MonthOf(now)
    \/ printed.month = MonthOf(now) /\ printed.day <= DayOf(now)

\* the date a value handed to get_valid_update_date reads as, NaT when it
\* reads as none
ReadsAs(date_value) ==
    IF date_value.k \in {"datetime", "str"} THEN date_value.v ELSE NaT

\* C20: neither copy of get_valid_update_date returns a date later than the
\* current time: a future date is replaced by the current date, a past or
\* present date is returned formatted as it is, and what cannot be read as a
\* date gives the string 'Unknown'; the last_updated of every summary_data
\* entry of load_all_indicators is clamped in the same way, and so is the
\* badge of every card.
C20_NeverAfterNow ==
    /\ out.op = "get_valid_update_date" =>
          /\ ReadsAs(out.date_value) = NaT => out.result = Unknown
          /\ ReadsAs(out.date_value) # NaT =>
                /\ out.result.text = "date"
                /\ NotAfterToday(out.result)
                /\ ReadsAs(out.date_value) > now =>
                      out.result = [text |-> "date", month |-> MonthOf(now),
                                    day |-> DayOf(now)]
                /\ ReadsAs(out.date_value) <= now =>
                      out.result = [text |-> "date",
                                    month |-> MonthOf(ReadsAs(out.date_value)),
                                    day |-> DayOf(ReadsAs(out.date_value))]
    /\ out.op = "load_all_indicators" =>
          \A id \in DOMAIN out.result.summary_data :
              LET rows == out.result.all_indicators[id].df.rows
                  latest == rows[Len(rows)].Date
                  last_updated == out.result.summary_data[id].last_updated
              IN  /\ last_updated <= MonthOf(now)
                  /\ latest > now => last_updated = MonthOf(now)
                  /\ latest <= now => last_updated = MonthOf(latest)
    /\ out.op = "main_view" =>
          \A id \in DOMAIN out.cards :
              out.cards[id].last_updated.text = "date" =>
                  NotAfterToday(out.cards[id].last_updated)

\* a text that reads as a date after the clock was handed to the copy of
\* data_loader.py, which answered with the day of the clock
C20_FutureDateClamped ==
    /\ out.op = "get_valid_update_date"
    /\ out.module = "data_loader"
    /\ out.date_value = DateString(TS(24, 10, 0))
    /\ now = TS(24, 1, 1)
    /\ out.result = [text |-> "date", month |-> 24, day |-> 1]

\* a table whose latest row is dated after the clock was summarized under
\* the month of the clock
FutureTableSummarized ==
    /\ out.op = "load_all_indicators"
    /\ "cruspi" \in DOMAIN out.result.summary_data
    /\ out.result.all_indicators["cruspi"].df.rows[
           Len(out.result.all_indicators["cruspi"].df.rows)].Date > now
    /\ out.result.summary_data["cruspi"].last_updated = MonthOf(now)


\* what a file holds, whenever it was written
Content(f) == [c \in DOMAIN f \ {"mtime"} |-> f[c]]

\* the files are there after copy_data_files and hold what the source held
\* before the script ran
HoldsCopy(path, source_file) ==
    /\ path \in DOMAIN out.copied
    /\ Content(out.copied[path]) = Content(out.before[source_file])

\* C21: if find_sample_data found a cruspi_direct file, it is the first file
\* of the list, and when copy_data_files is through with the list both
\* data/raw/cruspi_direct.csv and data/processed/cruspi.csv hold a copy of it.
C21_DirectFileInBothPlaces ==
    (/\ out.op = "setup_data_dir"
     /\ \E i \in 1..Len(out.source_files) : IsCruspiDirect(out.source_files[i]))
    => /\ IsCruspiDirect(out.source_files[1])
       /\ HoldsCopy(<<"raw", "cruspi", "_direct">>, out.source_files[1])
       /\ HoldsCopy(<<"processed", "cruspi", "">>, out.source_files[1])

\* the same of a direct file found anywhere but at data/raw/cruspi_direct.csv
C21_DirectFileFromElsewhere ==
    (/\ out.op = "setup_data_dir"
     /\ \E i \in 1..Len(out.source_files) : IsCruspiDirect(out.source_files[i])
     /\ out.source_files[1] # <<"raw", "cruspi", "_direct">>)
    => C21_DirectFileInBothPlaces

\* C22: within one rendering of create_indicator_card with show_forecast
\* set, the value the forecast note quotes is the final value of the forecast
\* series drawn in the chart of the card, and the forecast change of the
\* commentary of the main view is computed from the same forecast, a
\* generated forecast included.
C22_OneForecastPerCard ==
    (/\ out.op = "create_indicator_card"
     /\ out.show_forecast
     /\ out.card.note.shown)
    => /\ out.card.chart.forecast.drawn
       /\ out.card.chart.forecast.y[Len(out.card.chart.forecast.y)]
              = Plotted(out.card.note.value)
       /\ out.card.commentary.shown
       /\ out.card.commentary.value = out.card.note.value
       /\ out.card.commentary.forecast_change = out.card.note.forecast_change

\* the same of the cards whose forecast was read from a file of two rows or
\* more
C22_ForecastFromFile ==
    (/\ out.op = "create_indicator_card"
     /\ <<"forecasts", out.indicator_id, "_forecast">> \in DOMAIN fs
     /\ fs[<<"forecasts", out.indicator_id, "_forecast">>] = GoodForecastCsv)
    => C22_OneForecastPerCard

\* the row of a table that has the latest Date
LatestDated(df) ==
    df.rows[CHOOSE i \in 1..Len(df.rows) :
                \A j \in 1..Len(df.rows) : df.rows[j]["Date"] <= df.rows[i]["Date"]]

\* the value and the changes are those of the row of df with the latest Date
OfLatestDated(current_value, monthly_change, yoy_change, df) ==
    /\ current_value = LatestDated(df)["value"]
    /\ HasCol(df, "monthly_change")
          => monthly_change = LatestDated(df)["monthly_change"]
    /\ HasCol(df, "yoy_change") => yoy_change = LatestDated(df)["yoy_change"]

\* C23: the current value, the monthly change and the year-over-year change
\* shown on an indicator card and stored in summary_data are those of the row
\* with the latest Date of the indicator's table, whatever the order of the
\* rows of the source file.
C23_LatestDatedRowShown ==
    /\ out.op = "main_view" =>
          \A id \in DOMAIN out.cards :
              out.cards[id].rendered /\ HasCol(out.data[id], "Date") =>
                  OfLatestDated(out.cards[id].metrics.current_value,
                                out.cards[id].metrics.monthly_change,
                                out.cards[id].metrics.yoy_change,
                                out.data[id])
    /\ out.op = "load_all_indicators" =>
          \A id \in DOMAIN out.result.summary_data :
              OfLatestDated(out.result.summary_data[id].current_value,
                            out.result.summary_data[id].monthly_change,
                            out.result.summary_data[id].yoy_change,
                            out.result.all_indicators[id].df)

\* the same while every file has its rows in ascending order of Date
C23_AscendingFiles ==
    (\A p \in DOMAIN fs :
        \A i \in 1..(Len(fs[p].rows) - 1) :
            fs[p].rows[i]["Date"] < fs[p].rows[i + 1]["Date"])
    => C23_LatestDatedRowShown
=============================================================================
